---------------------------- MODULE Spec2Model ----------------------------
(***************************************************************************)
(* Evidence Base Classifier: the per-document driver loop (app.py), the    *)
(* analysis client (llm_client.py) and the result aggregator               *)
(* (results_manager.py).                                                   *)
(*                                                                         *)
(* Strings are sequences of tokens: a token is one whitespace character    *)
(* or a run of non-whitespace text, so "Grey Literature" is                *)
(* <<"Grey", " ", "Literature">> and "" is << >>.  Messages built by       *)
(* f-strings are the concatenation of their literal parts and the          *)
(* interpolated values (the file name, which every message carries next to *)
(* the source_file field, is left out of the message).  Python's None is   *)
(* None below.                                                             *)
(***************************************************************************)
EXTENDS Integers, Sequences, FiniteSets, TLC

VARIABLES
    pc,               \* position of the running script / of the harness
    status,           \* st.session_state.status
    model_selection,  \* the model selector of the run
    openai_client,    \* LLMClient.openai_client is set
    anthropic_client, \* LLMClient.anthropic_client is set
    total_files,      \* len(uploaded_files)
    i,                \* index of the document in the loop (1-based)
    uploaded_file,    \* the document in the loop
    extracted_text,   \* len(extracted_text) of the current document
    llm_result,       \* llm_result of the current document
    results,          \* ResultsManager.results
    errors,           \* ResultsManager.errors
    clock,            \* datetime.now(), as a logical clock
    calls,            \* backend calls made so far: <<[doc, api]>>
    analyzed,         \* number of analyze_paper calls per document
    trace,            \* steps of the loop body taken so far: <<[doc, file, step, ok]>>
    hist,             \* calls made to the aggregator (add_result/add_error)
    vIn, vOut, vOut2, \* validate_result: input, outcome, outcome of re-validation
    aIn, aOut,        \* analyze_paper: inputs and outcomes
    eIn, eOut, cOut,  \* extract_text_from_pdf: the page's texts, the outcome, and
                      \* _clean_text of the page's native text
    tag,              \* ResultsManager: self.timestamp and self.model_name
    returned          \* ResultsManager: what the last call returned and wrote

vars == << pc, status, model_selection, openai_client, anthropic_client,
           total_files, i, uploaded_file, extracted_text, llm_result, results, errors,
           clock, calls, analyzed, trace, hist, vIn, vOut, vOut2, aIn, aOut,
           eIn, eOut, cOut, tag, returned >>

-----------------------------------------------------------------------------
(* Bounds of the model *)

MaxDocs == 2
MaxCalls == 3
MaxRuns == 3
MaxChars == 3

-----------------------------------------------------------------------------
(* Strings *)

None == << "<None>" >>

Whitespace == { " ", "\t", "\n" }

RECURSIVE lstrip(_)
lstrip(s) ==
    IF s # << >> /\ Head(s) \in Whitespace THEN lstrip(Tail(s)) ELSE s

RECURSIVE rstrip(_)
rstrip(s) ==
    IF s # << >> /\ s[Len(s)] \in Whitespace
    THEN rstrip(SubSeq(s, 1, Len(s) - 1)) ELSE s

strip(s) == rstrip(lstrip(s))

\* Python truthiness of a str
Truthy(s) == s # << >>

Contains(msg, part) ==
    \E k \in 0 .. (Len(msg) - Len(part)) : SubSeq(msg, k + 1, k + Len(part)) = part

-----------------------------------------------------------------------------
(* Verdicts: what a backend hands back as the parsed result.  kind "dict"  *)
(* is a Python dict (d maps the keys it holds to their values); "none" and *)
(* "list" are the non-dict values json.loads can return (null, []).        *)

required_fields ==
    << "article_title", "inclusion_decision", "justification", "category",
       "detailed_reasoning" >>

valid_decisions == { << "Included" >>, << "Excluded" >> }

valid_categories ==
    { << "Client" >>, << "FLW" >>, << "Feasibility" >>, << "Data" >>,
      << "Grey", " ", "Literature" >>, << "N/A" >> }

NA == << "N/A" >>

EmptyD == [ f \in {} |-> << >> ]

Dict(d) == [ kind |-> "dict", d |-> d ]
NoneResult == [ kind |-> "none", d |-> EmptyD ]
ListResult == [ kind |-> "list", d |-> EmptyD ]
EmptyDict == Dict(EmptyD)

Has(result, field) == field \in DOMAIN result.d

\* dict.get(field, "")
Get(result, field) == IF Has(result, field) THEN result.d[field] ELSE << >>

-----------------------------------------------------------------------------
(* LLMClient.validate_result *)

Outcome(ok, error, result) == [ ok |-> ok, error |-> error, result |-> result ]

\* fault: the loop over required_fields without the strip() test
RECURSIVE check_required_fields_no_strip(_, _)
check_required_fields_no_strip(result, k) ==
    IF k > Len(required_fields) THEN None
    ELSE LET field == required_fields[k] IN
         IF ~Has(result, field)
         THEN << "Missing required field: ", field >>
         ELSE IF ~Truthy(result.d[field])
         THEN << "Empty required field: ", field >>
         ELSE check_required_fields_no_strip(result, k + 1)

\* the loop over required_fields: the message of the first field that is
\* missing or empty, None when every field passes
RECURSIVE check_required_fields(_, _)
check_required_fields(result, k) ==
    IF k > Len(required_fields) THEN None
    ELSE LET field == required_fields[k] IN
         IF ~Has(result, field)
         THEN << "Missing required field: ", field >>
         ELSE IF ~Truthy(result.d[field]) \/ ~Truthy(strip(result.d[field]))
         THEN << "Empty required field: ", field >>
         ELSE check_required_fields(result, k + 1)

\* fault: the correction left out
correct_category_skipped(result) == result

\* "excluded papers should have N/A category": the in-place correction
correct_category(result) ==
    IF result.d["inclusion_decision"] = << "Excluded" >> /\ result.d["category"] # NA
    THEN [ result EXCEPT !.d["category"] = NA ]
    ELSE result

validate_result(result) ==
    IF result.kind = "none"
    THEN \* `field not in None` raises TypeError, caught by the except
         Outcome(FALSE, << "Validation error: ", "TypeError" >>, result)
    ELSE IF result.kind = "list"
    THEN Outcome(FALSE, << "Missing required field: ", required_fields[1] >>, result)
    ELSE LET problem == check_required_fields(result, 1) IN
         IF problem # None THEN Outcome(FALSE, problem, result)
         ELSE IF result.d["inclusion_decision"] \notin valid_decisions
         THEN Outcome(FALSE, << "Invalid inclusion_decision: " >>
                               \o result.d["inclusion_decision"], result)
         ELSE IF result.d["category"] \notin valid_categories
         THEN Outcome(FALSE, << "Invalid category: " >> \o result.d["category"], result)
         ELSE Outcome(TRUE, None, correct_category(result))

-----------------------------------------------------------------------------
(* The verdicts the checks range over *)

Absent == << "<absent>" >>

TitleValues == { << >>, << " " >>, << "A" >>, << " ", "A", " " >> }
DecisionValues ==
    { << >>, << "Included" >>, << "Excluded" >>, << "Maybe" >>, << " ", "Excluded" >> }
JustificationValues == { << "\t" >>, << "J" >> }
CategoryValues == valid_categories \cup { << >>, << "Other" >>, << "N/A", " " >> }
ReasoningValues == { << "\n", " " >>, << "R" >> }

\* the dict holding the keys of r that are not Absent
AsDict(r) ==
    Dict([ f \in { k \in DOMAIN r : r[k] # Absent } |-> r[f] ])

Verdicts ==
    { AsDict(r) : r \in [ article_title : TitleValues \cup { Absent },
                          inclusion_decision : DecisionValues \cup { Absent },
                          justification : JustificationValues \cup { Absent },
                          category : CategoryValues \cup { Absent },
                          detailed_reasoning : ReasoningValues \cup { Absent } ] }
    \cup { NoneResult, ListResult }

Verdict(title, decision, category) ==
    Dict([ article_title |-> title, inclusion_decision |-> decision,
           justification |-> << "J" >>, category |-> category,
           detailed_reasoning |-> << "R" >> ])

-----------------------------------------------------------------------------
(* Model selectors: strings of single characters, so that model.lower()    *)
(* and the substring tests are computed.                                   *)

UpperCase == << "A", "C", "D", "E", "L", "O", "P", "S", "U" >>
LowerCase == << "a", "c", "d", "e", "l", "o", "p", "s", "u" >>

lower_char(c) ==
    IF \E k \in 1 .. Len(UpperCase) : UpperCase[k] = c
    THEN LowerCase[CHOOSE k \in 1 .. Len(UpperCase) : UpperCase[k] = c]
    ELSE c

lower(s) == [ k \in 1 .. Len(s) |-> lower_char(s[k]) ]

O3 == << "o", "3" >>
ClaudeOpus4 == << "c", "l", "a", "u", "d", "e", "-", "o", "p", "u", "s", "-", "4" >>

\* model_options of the sidebar's selectbox
model_options == { O3, ClaudeOpus4 }

Selectors ==
    model_options \cup
    { << "O", "3" >>, << "C", "L", "A", "U", "D", "E" >>,
      << "c", "l", "a", "u", "d", "e", "-", "o", "3" >>,
      << "g", "p", "t", "-", "4" >>, << >> }

-----------------------------------------------------------------------------
(* What the backends answer.  exc is "" when the call returns, the raised  *)
(* exception's str() otherwise.                                            *)

Excs == { "E1", "E2" }

JsonText(v) == [ kind |-> "json", value |-> v ]
GarbageText == [ kind |-> "garbage", value |-> NoneResult ]
NoContent == [ kind |-> "none", value |-> NoneResult ]

ToolUse(v) == [ type |-> "tool_use", input |-> v, text |-> NoContent ]
TextBlock(t) == [ type |-> "text", input |-> NoneResult, text |-> t ]
ThinkingBlock == [ type |-> "thinking", input |-> NoneResult, text |-> NoContent ]

Good == Verdict(<< "A" >>, << "Included" >>, << "Client" >>)
GoodFLW == Verdict(<< "B" >>, << "Included" >>, << "FLW" >>)
ExcludedClient == Verdict(<< "A" >>, << "Excluded" >>, << "Client" >>)
ExcludedNA == Verdict(<< "B" >>, << "Excluded" >>, NA)
BlankTitle == Verdict(<< " " >>, << "Included" >>, << "Data" >>)
BadCategory == Verdict(<< "A" >>, << "Excluded" >>, << "Other" >>)
NoReasoning ==
    Dict([ article_title |-> << "A" >>, inclusion_decision |-> << "Included" >>,
           justification |-> << "J" >>, category |-> << "Client" >> ])

BackendDicts ==
    { Good, GoodFLW, ExcludedClient, ExcludedNA, BlankTitle, BadCategory, NoReasoning }

Raises(e) == [ exc |-> e, content |-> << >>, text |-> NoContent ]
Message(content) == [ exc |-> "", content |-> content, text |-> NoContent ]
Completion(text) == [ exc |-> "", content |-> << >>, text |-> text ]

\* chat.completions.create: raises, or choices[0].message.content
OpenAIResponses ==
    { Raises(e) : e \in Excs }
    \cup { Completion(JsonText(v)) : v \in BackendDicts \cup { NoneResult, ListResult } }
    \cup { Completion(GarbageText), Completion(NoContent) }

\* messages.stream / messages.create: raises, or message.content
AnthropicResponses ==
    { Raises(e) : e \in Excs }
    \cup { Message(<< ToolUse(v) >>) : v \in BackendDicts }
    \cup { Message(<< >>),
           Message(<< TextBlock(JsonText(ExcludedClient)) >>),
           Message(<< TextBlock(JsonText(NoneResult)) >>),
           Message(<< TextBlock(GarbageText) >>),
           Message(<< TextBlock(JsonText(GoodFLW)), ToolUse(Good) >>),
           Message(<< TextBlock(GarbageText), ToolUse(ExcludedNA) >>),
           Message(<< ThinkingBlock, TextBlock(JsonText(Good)) >>),
           Message(<< ThinkingBlock, ToolUse(GoodFLW) >>) }

Backends ==
    [ openai : OpenAIResponses, stream : AnthropicResponses, create : AnthropicResponses ]

-----------------------------------------------------------------------------
(* LLMClient.analyze_paper_openai / analyze_paper_anthropic / analyze_paper *)

Analysis(result, success, error, made, log) ==
    [ result |-> result, success |-> success, error |-> error,
      calls |-> made, log |-> log ]

OpenAICreate == "openai.chat.completions.create"
AnthropicStream == "anthropic.messages.stream"
AnthropicCreate == "anthropic.messages.create"

\* fault: the call is made without looking at the client
analyze_paper_openai_unguarded(client, backend) ==
    LET r == backend.openai IN
    IF r.exc # ""
    THEN Analysis(EmptyDict, FALSE, << "OpenAI API error: ", r.exc >>,
                  << OpenAICreate >>, << >>)
    ELSE IF r.text.kind \in { "none", "garbage" }
    THEN Analysis(EmptyDict, FALSE, << "OpenAI API error: ", "JSONDecodeError" >>,
                  << OpenAICreate >>, << >>)
    ELSE Analysis(r.text.value, TRUE, None, << OpenAICreate >>, << >>)

analyze_paper_openai(client, backend) ==
    IF ~client
    THEN Analysis(EmptyDict, FALSE, << "OpenAI client not initialized" >>, << >>, << >>)
    ELSE LET r == backend.openai IN
         IF r.exc # ""
         THEN Analysis(EmptyDict, FALSE, << "OpenAI API error: ", r.exc >>,
                       << OpenAICreate >>, << >>)
         ELSE IF r.text.kind = "none"
         THEN \* json.loads(None) raises TypeError inside the try
              Analysis(EmptyDict, FALSE, << "OpenAI API error: ", "TypeError" >>,
                       << OpenAICreate >>, << >>)
         ELSE IF r.text.kind = "garbage"
         THEN Analysis(EmptyDict, FALSE, << "OpenAI API error: ", "JSONDecodeError" >>,
                       << OpenAICreate >>, << >>)
         ELSE Analysis(r.text.value, TRUE, None, << OpenAICreate >>, << >>)

\* the scan of message.content: the first tool_use block's input; failing
\* that, content[0].text parsed as JSON; found is FALSE when neither is there
parse_content(content) ==
    IF content # << >> /\ \E k \in 1 .. Len(content) : content[k].type = "tool_use"
    THEN [ found |-> TRUE,
           result |-> content[CHOOSE k \in 1 .. Len(content) :
                                 /\ content[k].type = "tool_use"
                                 /\ \A j \in 1 .. (k - 1) : content[j].type # "tool_use"].input ]
    ELSE IF content # << >> /\ content[1].type = "text" /\ content[1].text.kind = "json"
    THEN [ found |-> TRUE, result |-> content[1].text.value ]
    ELSE [ found |-> FALSE, result |-> EmptyDict ]

\* fault: the combined message keeps the fallback error only
anthropic_fallback_drops_first(e, backend) ==
    LET r == backend.create
        made == << AnthropicStream, AnthropicCreate >>
        log == << "warning: Streaming failed, trying non-streaming" >>
    IN  IF r.exc # ""
        THEN Analysis(EmptyDict, FALSE,
                      << "Anthropic API error (streaming and non-streaming both failed): ",
                         r.exc >>, made, log)
        ELSE LET parsed == parse_content(r.content) IN
             IF parsed.found
             THEN Analysis(parsed.result, TRUE, None, made, log)
             ELSE Analysis(EmptyDict, FALSE,
                           << "Unexpected response format from Anthropic (both streaming and non-streaming failed)" >>,
                           made, log)

\* the except branch of the streaming attempt: e is the streaming error
anthropic_fallback(e, backend) ==
    LET r == backend.create
        made == << AnthropicStream, AnthropicCreate >>
        log == << "warning: Streaming failed, trying non-streaming" >>
    IN  IF r.exc # ""
        THEN Analysis(EmptyDict, FALSE,
                      << "Anthropic API error (streaming and non-streaming both failed): ",
                         e, " | Fallback: ", r.exc >>, made, log)
        ELSE LET parsed == parse_content(r.content) IN
             IF parsed.found
             THEN Analysis(parsed.result, TRUE, None, made, log)
             ELSE Analysis(EmptyDict, FALSE,
                           << "Unexpected response format from Anthropic (both streaming and non-streaming failed)" >>,
                           made, log)

analyze_paper_anthropic(client, backend) ==
    IF ~client
    THEN Analysis(EmptyDict, FALSE, << "Anthropic client not initialized" >>, << >>, << >>)
    ELSE LET r == backend.stream IN
         IF r.exc # ""
         THEN anthropic_fallback(r.exc, backend)
         ELSE LET parsed == parse_content(r.content) IN
              IF parsed.found
              THEN Analysis(parsed.result, TRUE, None, << AnthropicStream >>, << >>)
              ELSE Analysis(EmptyDict, FALSE,
                            << "Unexpected response format from Anthropic" >>,
                            << AnthropicStream >>, << >>)

TokenLimit == 180000
LargeTokens == 150000
MediumLargeTokens == 100000
LargeishTokens == 50000
CharsPerToken == 4

estimate_tokens(text_len) == text_len \div CharsPerToken

\* fault: the cutoff off by one
too_large_inclusive(estimated_tokens) == estimated_tokens >= TokenLimit

too_large(estimated_tokens) == estimated_tokens > TokenLimit

\* the size messages logged by analyze_paper
size_log(estimated_tokens, model) ==
    ( IF estimated_tokens > LargeTokens THEN << "warning: may take 5-10 minutes" >>
      ELSE IF estimated_tokens > MediumLargeTokens THEN << "info: may take 2-5 minutes" >>
      ELSE IF estimated_tokens > LargeishTokens THEN << "info: may take 1-2 minutes" >>
      ELSE << >> )
    \o ( IF Contains(lower(model), << "c", "l", "a", "u", "d", "e" >>)
            /\ estimated_tokens > MediumLargeTokens
         THEN << "info: Using streaming for large document processing" >>
         ELSE << >> )

\* fault: the streaming transport chosen by the size of the document
dispatch_streaming_by_size(estimated_tokens, model, clients, backend) ==
    IF Contains(lower(model), O3)
    THEN analyze_paper_openai(clients.openai, backend)
    ELSE IF Contains(lower(model), << "c", "l", "a", "u", "d", "e" >>)
    THEN IF estimated_tokens > MediumLargeTokens \/ ~clients.anthropic
         THEN analyze_paper_anthropic(clients.anthropic, backend)
         ELSE LET a == anthropic_fallback("", backend) IN
              [ a EXCEPT !.calls = << AnthropicCreate >>, !.log = << >> ]
    ELSE Analysis(EmptyDict, FALSE, << "Unsupported model: " >> \o model, << >>, << >>)

\* fault: "claude" is looked for before "o3"
dispatch_claude_first(estimated_tokens, model, clients, backend) ==
    IF Contains(lower(model), << "c", "l", "a", "u", "d", "e" >>)
    THEN analyze_paper_anthropic(clients.anthropic, backend)
    ELSE IF Contains(lower(model), O3)
    THEN analyze_paper_openai(clients.openai, backend)
    ELSE Analysis(EmptyDict, FALSE, << "Unsupported model: " >> \o model, << >>, << >>)

\* the dispatch on the selector, once the size is accepted
dispatch(estimated_tokens, model, clients, backend) ==
    IF Contains(lower(model), O3)
    THEN analyze_paper_openai(clients.openai, backend)
    ELSE IF Contains(lower(model), << "c", "l", "a", "u", "d", "e" >>)
    THEN analyze_paper_anthropic(clients.anthropic, backend)
    ELSE Analysis(EmptyDict, FALSE, << "Unsupported model: " >> \o model, << >>, << >>)

analyze_paper(text_len, model, clients, backend) ==
    LET estimated_tokens == estimate_tokens(text_len) IN
    IF too_large(estimated_tokens)
    THEN Analysis(EmptyDict, FALSE,
                  << "Document too large (", ToString(estimated_tokens),
                     " tokens) - exceeds safe processing limit" >>,
                  << >>, << "warning: approaching context limit (200k)" >>)
    ELSE [ dispatch(estimated_tokens, model, clients, backend)
             EXCEPT !.log = size_log(estimated_tokens, model) \o @ ]

-----------------------------------------------------------------------------
(* Document texts: run-length encoded, a sequence of runs [c, n] of n      *)
(* copies of the character c, so that texts of several hundred thousand    *)
(* characters are values.  Characters are named by tokens: "x" stands for  *)
(* a printable ASCII character other than the space, "NUL" for U+0000,     *)
(* "e-acute" for U+00E9.                                                   *)

Run(c, n) == [ c |-> c, n |-> n ]
Chars(c, n) == IF n = 0 THEN << >> ELSE << Run(c, n) >>

\* characters matched by \s
SpaceChars == { " ", "\t", "\n", "\r", "\f" }
\* characters matched by [\x00-\x1f\x7f-\x9f]
ControlChars == { "NUL", "\t", "\n", "\r", "\f", "DEL" }
\* characters matched by [^\x20-\x7E\n\r\t]
NonPrintable == { "NUL", "\f", "DEL", "e-acute" }

RECURSIVE text_len(_)
text_len(text) == IF text = << >> THEN 0 ELSE Head(text).n + text_len(Tail(text))

\* adjacent runs of the same character are one run
RECURSIVE merge_runs(_)
merge_runs(text) ==
    IF Len(text) < 2 THEN text
    ELSE IF text[1].c = text[2].c
    THEN merge_runs(<< Run(text[1].c, text[1].n + text[2].n) >> \o SubSeq(text, 3, Len(text)))
    ELSE << text[1] >> \o merge_runs(Tail(text))

\* re.sub of every character of a class by the empty string
remove_chars(text, class) == merge_runs(SelectSeq(text, LAMBDA r : r.c \notin class))

\* re.sub(r'\s+', ' ', text)
RECURSIVE collapse_whitespace(_)
collapse_whitespace(text) ==
    IF text = << >> THEN << >>
    ELSE IF Head(text).c \in SpaceChars
    THEN LET rest == collapse_whitespace(Tail(text)) IN
         IF rest # << >> /\ Head(rest) = Run(" ", 1) THEN rest
         ELSE << Run(" ", 1) >> \o rest
    ELSE << Head(text) >> \o collapse_whitespace(Tail(text))

\* number of leading runs of text that are whitespace
RECURSIVE space_prefix(_)
space_prefix(text) ==
    IF text # << >> /\ Head(text).c \in SpaceChars THEN 1 + space_prefix(Tail(text)) ELSE 0

\* number of newlines in text
RECURSIVE newlines(_)
newlines(text) ==
    IF text = << >> THEN 0
    ELSE (IF Head(text).c = "\n" THEN Head(text).n ELSE 0) + newlines(Tail(text))

\* a stretch of whitespace holding three newlines or more: what lies between
\* its first and its last newline, these included, becomes "\n\n"
collapse_stretch(stretch) ==
    LET at == { k \in DOMAIN stretch : stretch[k].c = "\n" }
        first == CHOOSE k \in at : \A j \in at : k <= j
        last == CHOOSE k \in at : \A j \in at : j <= k
    IN  IF newlines(stretch) < 3
        THEN stretch
        ELSE SubSeq(stretch, 1, first - 1) \o << Run("\n", 2) >>
             \o SubSeq(stretch, last + 1, Len(stretch))

\* re.sub(r'\n\s*\n\s*\n+', '\n\n', text)
RECURSIVE collapse_blank_lines(_)
collapse_blank_lines(text) ==
    IF text = << >> THEN << >>
    ELSE IF Head(text).c \notin SpaceChars
    THEN << Head(text) >> \o collapse_blank_lines(Tail(text))
    ELSE collapse_stretch(SubSeq(text, 1, space_prefix(text)))
         \o collapse_blank_lines(SubSeq(text, space_prefix(text) + 1, Len(text)))

RECURSIVE text_lstrip(_)
text_lstrip(text) ==
    IF text # << >> /\ Head(text).c \in SpaceChars THEN text_lstrip(Tail(text)) ELSE text

RECURSIVE text_rstrip(_)
text_rstrip(text) ==
    IF text # << >> /\ text[Len(text)].c \in SpaceChars
    THEN text_rstrip(SubSeq(text, 1, Len(text) - 1)) ELSE text

text_strip(text) == text_rstrip(text_lstrip(text))

\* "\n".join(parts)
RECURSIVE join_lines(_)
join_lines(parts) ==
    IF parts = << >> THEN << >>
    ELSE IF Len(parts) = 1 THEN parts[1]
    ELSE merge_runs(parts[1] \o << Run("\n", 1) >> \o join_lines(Tail(parts)))

-----------------------------------------------------------------------------
(* PDFProcessor *)

ocr_threshold == 50

\* fault: the whitespace is counted too
_is_text_sufficient_raw_length(text) ==
    IF text = << >> THEN FALSE
    ELSE text_len(text) >= ocr_threshold

_is_text_sufficient(text) ==
    IF text = << >> THEN FALSE
    ELSE text_len(remove_chars(text, SpaceChars)) >= ocr_threshold

\* fault: the last substitution is left out
_clean_text_keeps_non_ascii(text) ==
    IF text = << >> THEN << >>
    ELSE LET collapsed == collapse_blank_lines(collapse_whitespace(merge_runs(text)))
             stripped == text_strip(collapsed)
         IN  remove_chars(stripped, ControlChars)

_clean_text(text) ==
    IF text = << >> THEN << >>
    ELSE LET collapsed == collapse_blank_lines(collapse_whitespace(merge_runs(text)))
             stripped == text_strip(collapsed)
         IN  remove_chars(remove_chars(stripped, ControlChars), NonPrintable)

\* A document: open_error and bbox_error are "" or the str() of what
\* pdfplumber.open / first_page.bbox raise; a page holds what extract_text()
\* and image_to_string() return for it, or that they raise.
Page(native, ocr) ==
    [ native_raises |-> FALSE, native |-> native, ocr_raises |-> FALSE, ocr |-> ocr ]
FailingPage == [ native_raises |-> TRUE, native |-> << >>, ocr_raises |-> TRUE, ocr |-> << >> ]
Doc(open_error, bbox_error, pages) ==
    [ open_error |-> open_error, bbox_error |-> bbox_error, pages |-> pages ]

_extract_native_text(doc) ==
    IF doc.open_error # "" THEN << >>
    ELSE join_lines([ k \in 1 .. Len(SelectSeq(doc.pages,
                          LAMBDA p : ~p.native_raises /\ p.native # << >>)) |->
                      SelectSeq(doc.pages,
                          LAMBDA p : ~p.native_raises /\ p.native # << >>)[k].native ])

_extract_ocr_text(doc) ==
    IF doc.open_error # "" THEN << >>
    ELSE join_lines([ k \in 1 .. Len(SelectSeq(doc.pages,
                          LAMBDA p : ~p.ocr_raises /\ text_strip(p.ocr) # << >>)) |->
                      SelectSeq(doc.pages,
                          LAMBDA p : ~p.ocr_raises /\ text_strip(p.ocr) # << >>)[k].ocr ])

Extraction(text, success, error, steps) ==
    [ text |-> text, success |-> success, error |-> error, steps |-> steps ]

extract_text_from_pdf_keeps_native(doc) ==
    LET text == _extract_native_text(doc) IN
    IF _is_text_sufficient(text)
    THEN Extraction(_clean_text(text), TRUE, None, << "native" >>)
    ELSE LET ocr_text == _extract_ocr_text(doc) IN
         IF ocr_text # << >>
         THEN Extraction(_clean_text(join_lines(<< text, ocr_text >>)), TRUE, None,
                         << "native", "ocr" >>)
         ELSE Extraction(<< >>, FALSE,
                         << "Both native and OCR text extraction failed" >>,
                         << "native", "ocr" >>)

extract_text_from_pdf(doc) ==
    LET text == _extract_native_text(doc) IN
    IF _is_text_sufficient(text)
    THEN Extraction(_clean_text(text), TRUE, None, << "native" >>)
    ELSE LET ocr_text == _extract_ocr_text(doc) IN
         IF ocr_text # << >>
         THEN Extraction(_clean_text(ocr_text), TRUE, None, << "native", "ocr" >>)
         ELSE Extraction(<< >>, FALSE,
                         << "Both native and OCR text extraction failed" >>,
                         << "native", "ocr" >>)

Readable(ok, error) == [ ok |-> ok, error |-> error ]

is_pdf_readable_no_reason(doc) ==
    IF doc.open_error # ""
    THEN Readable(FALSE, << "PDF is not readable: ", doc.open_error >>)
    ELSE IF Len(doc.pages) = 0
    THEN Readable(FALSE, None)
    ELSE IF doc.bbox_error # ""
    THEN Readable(FALSE, << "PDF is not readable: ", doc.bbox_error >>)
    ELSE Readable(TRUE, None)

is_pdf_readable(doc) ==
    IF doc.open_error # ""
    THEN Readable(FALSE, << "PDF is not readable: ", doc.open_error >>)
    ELSE IF Len(doc.pages) = 0
    THEN Readable(FALSE, << "PDF has no pages" >>)
    ELSE IF doc.bbox_error # ""
    THEN Readable(FALSE, << "PDF is not readable: ", doc.bbox_error >>)
    ELSE Readable(TRUE, None)

\* the uploaded documents the driver is run on
ZeroPages == Doc("", "", << >>)
Corrupt == Doc("E1", "", << Page(Chars("x", 60), << >>) >>)
BadFirstPage == Doc("", "E2", << Page(Chars("x", 60), << >>) >>)
NativeText == Doc("", "", << Page(Chars("x", 60), << >>) >>)
TwoPages ==
    Doc("", "", << Page(Chars("x", 30) \o Chars(" ", 2), << >>), FailingPage,
                   Page(Chars("\t", 1) \o Chars("x", 20), << >>) >>)
TooLong == Doc("", "", << Page(Chars("x", 720004), << >>) >>)
Scanned == Doc("", "", << Page(Chars("x", 49), Chars("x", 100) \o Chars("\n", 1)) >>)
BlankScan == Doc("", "", << Page(<< >>, Chars("\n", 2)), FailingPage >>)
ForeignScan == Doc("", "", << Page(<< >>, Chars("e-acute", 3)) >>)

Documents ==
    { ZeroPages, Corrupt, BadFirstPage, NativeText, TwoPages, TooLong, Scanned,
      BlankScan, ForeignScan }

\* the uploads of the modelled run
Uploads == { ZeroPages, Corrupt, NativeText, TooLong, BlankScan, ForeignScan }

\* pdf_processor.extract_text_from_pdf(uploaded_file, ...) for each upload: the
\* method reads nothing but the document, so its results are tabulated
extraction_of == [ doc \in Uploads |-> extract_text_from_pdf(doc) ]

-----------------------------------------------------------------------------
(* ResultsManager.  A manager is [results, errors, clock]; clock is the    *)
(* reading datetime.now() gives next.                                      *)

Manager == [ results |-> results, errors |-> errors, clock |-> clock ]

csv_row(llm_result_, source_file, now) ==
    [ article_title |-> Get(llm_result_, "article_title"),
      inclusion_exclusion_decision |-> Get(llm_result_, "inclusion_decision"),
      category |-> Get(llm_result_, "category"),
      detailed_reasoning_for_decision |-> Get(llm_result_, "detailed_reasoning"),
      citation |-> << >>,
      open_access_url |-> << >>,
      confidence |-> << >>,
      source_file |-> source_file,
      timestamp |-> now ]

\* fault: the record replaces the list instead of being appended
add_error_overwrites(m, source_file, error_message) ==
    [ m EXCEPT !.errors = << [ source_file |-> source_file,
                               error_message |-> error_message,
                               timestamp |-> m.clock ] >>,
               !.clock = m.clock + 1 ]

add_error(m, source_file, error_message) ==
    [ m EXCEPT !.errors = Append(m.errors,
                                 [ source_file |-> source_file,
                                   error_message |-> error_message,
                                   timestamp |-> m.clock ]),
               !.clock = m.clock + 1 ]

\* fault: a failed projection is swallowed
add_result_drops_failure(m, llm_result_, source_file) ==
    IF llm_result_.kind = "dict"
    THEN [ m EXCEPT !.results = Append(m.results, csv_row(llm_result_, source_file, m.clock)),
                    !.clock = m.clock + 1 ]
    ELSE m

add_result(m, llm_result_, source_file) ==
    IF llm_result_.kind = "dict"
    THEN [ m EXCEPT !.results = Append(m.results, csv_row(llm_result_, source_file, m.clock)),
                    !.clock = m.clock + 1 ]
    ELSE \* llm_result.get raises AttributeError: redirected into add_error
         add_error(m, source_file,
                   << "Error adding result: ", "AttributeError" >>)

get_stats(m) ==
    [ total_processed |-> Len(m.results) + Len(m.errors),
      successful |-> Len(m.results),
      failed |-> Len(m.errors) ]

\* [a-z0-9]
Alnum ==
    { "a", "b", "c", "d", "e", "f", "g", "h", "i", "j", "k", "l", "m", "n", "o", "p",
      "q", "r", "s", "t", "u", "v", "w", "x", "y", "z",
      "0", "1", "2", "3", "4", "5", "6", "7", "8", "9" }

\* the first index at which pat occurs in s, 0 if it does not
find(s, pat) ==
    IF Contains(s, pat)
    THEN 1 + CHOOSE k \in 0 .. (Len(s) - Len(pat)) :
                 /\ SubSeq(s, k + 1, k + Len(pat)) = pat
                 /\ \A j \in 0 .. (k - 1) : SubSeq(s, j + 1, j + Len(pat)) # pat
    ELSE 0

\* re.sub(pat + r'.*', pat, s): every occurrence of pat, with the rest of
\* its line ('.' does not match a line break), is replaced by pat
RECURSIVE sub_rest_of_line(_, _)
sub_rest_of_line(s, pat) ==
    LET k == find(s, pat) IN
    IF k = 0 THEN s
    ELSE LET rest == SubSeq(s, k + Len(pat), Len(s))
             e == find(rest, << "\n" >>)
         IN  SubSeq(s, 1, k - 1) \o pat
             \o (IF e = 0 THEN << >>
                 ELSE << "\n" >> \o sub_rest_of_line(SubSeq(rest, e + 1, Len(rest)), pat))

\* re.sub(r'[^a-z0-9\-_]', '-', s)
sub_disallowed(s) ==
    [ k \in 1 .. Len(s) |-> IF s[k] \in Alnum \cup { "-", "_" } THEN s[k] ELSE "-" ]

\* re.sub(r'-+', '-', s)
RECURSIVE sub_dashes(_)
sub_dashes(s) ==
    IF Len(s) < 2 THEN s
    ELSE IF s[1] = "-" /\ s[2] = "-" THEN sub_dashes(Tail(s))
    ELSE << s[1] >> \o sub_dashes(Tail(s))

\* s.strip('-')
RECURSIVE strip_dashes(_)
strip_dashes(s) ==
    IF s = << >> THEN s
    ELSE IF s[1] = "-" THEN strip_dashes(Tail(s))
    ELSE IF s[Len(s)] = "-" THEN strip_dashes(SubSeq(s, 1, Len(s) - 1))
    ELSE s

Unknown == << "u", "n", "k", "n", "o", "w", "n" >>

_sanitize_model_name_keeps_dash_runs(model_name) ==
    LET sanitized ==
            strip_dashes(sub_disallowed(
                sub_rest_of_line(sub_rest_of_line(lower(model_name), ClaudeOpus4), O3)))
    IN  IF sanitized # << >> THEN sanitized ELSE Unknown

_sanitize_model_name(model_name) ==
    LET sanitized ==
            strip_dashes(sub_dashes(sub_disallowed(
                sub_rest_of_line(sub_rest_of_line(lower(model_name), ClaudeOpus4), O3))))
    IN  IF sanitized # << >> THEN sanitized ELSE Unknown

\* datetime.now().strftime("%Y%m%d_%H%M%S") at construction
RunTimestamp == "20250101_120000"

\* self.csv_headers
csv_headers ==
    << "article_title", "inclusion_exclusion_decision", "category",
       "detailed_reasoning_for_decision", "citation", "open_access_url",
       "confidence", "source_file", "timestamp" >>

\* fieldnames of export_errors_to_csv
error_fieldnames == << "source_file", "error_message", "timestamp" >>

\* csv.DictWriter: writeheader(), then writerows(rows); a record of the file
\* is the list of its cells, in the order of fieldnames
DictWriter_header_with_rows(fieldnames, rows) ==
    (IF rows = << >> THEN << >> ELSE << fieldnames >>) \o
    [ k \in 1 .. Len(rows) |-> [ j \in 1 .. Len(fieldnames) |-> rows[k][fieldnames[j]] ] ]

DictWriter(fieldnames, rows) ==
    << fieldnames >> \o
    [ k \in 1 .. Len(rows) |-> [ j \in 1 .. Len(fieldnames) |-> rows[k][fieldnames[j]] ] ]

\* what a call returns (value), and the file it wrote (path, written)
Return(op, value, path, written) ==
    [ op |-> op, value |-> value, path |-> path, written |-> written ]

\* os.path.join(output_dir, f"evidence_base_classifier_{kind}_{model_name}_{timestamp}{ext}")
filepath(output_dir, kind, t, ext) ==
    << output_dir, "/", "evidence_base_classifier_", kind, "_", t.model_name, "_",
       t.timestamp, ext >>

export_to_csv(m, t) ==
    LET path == filepath("output", "results", t, ".csv")
    IN  Return("export_to_csv", path, path, DictWriter(csv_headers, m.results))

export_errors_to_csv(m, t) ==
    LET path == filepath("output", "errors", t, ".csv")
    IN  Return("export_errors_to_csv", path, path, DictWriter(error_fieldnames, m.errors))

\* the numbered block of one error
error_block(k, error) ==
    << << "Error #", ToString(k) >>,
       << "File: ", ToString(error.source_file) >>,
       << "Time: ", ToString(error.timestamp) >>,
       << "Error: " >> \o error.error_message,
       << "------------------------------" >>,
       << >> >>

RECURSIVE error_blocks(_, _)
error_blocks(k, errors_) ==
    IF k > Len(errors_) THEN << >>
    ELSE error_block(k, errors_[k]) \o error_blocks(k + 1, errors_)

export_errors_to_text(m, t) ==
    LET path == filepath("logs", "errors", t, ".txt")
    IN  Return("export_errors_to_text", path, path,
               << << "Evidence Base Classifier - Error Log" >>,
                  << "Generated: ", ToString(m.clock) >>,
                  << "Total Errors: ", ToString(Len(m.errors)) >>,
                  << "==================================================" >>,
                  << >> >> \o error_blocks(1, m.errors))

\* sum(1 for r in self.results if r['inclusion_exclusion_decision'] == decision)
RECURSIVE count_decision(_, _)
count_decision(rows, decision) ==
    IF rows = << >> THEN 0
    ELSE (IF Head(rows).inclusion_exclusion_decision = decision THEN 1 ELSE 0)
         + count_decision(Tail(rows), decision)

\* categories[cat] = categories.get(cat, 0) + 1, on a dict that keeps the
\* order in which its keys were inserted
count_category_newest_first(categories, cat) ==
    IF \E k \in DOMAIN categories : categories[k].cat = cat
    THEN [ k \in DOMAIN categories |->
             IF categories[k].cat = cat
             THEN [ categories[k] EXCEPT !.count = @ + 1 ]
             ELSE categories[k] ]
    ELSE << [ cat |-> cat, count |-> 1 ] >> \o categories

count_category(categories, cat) ==
    IF \E k \in DOMAIN categories : categories[k].cat = cat
    THEN [ k \in DOMAIN categories |->
             IF categories[k].cat = cat
             THEN [ categories[k] EXCEPT !.count = @ + 1 ]
             ELSE categories[k] ]
    ELSE Append(categories, [ cat |-> cat, count |-> 1 ])

RECURSIVE count_categories(_, _)
count_categories(rows, categories) ==
    IF rows = << >> THEN categories
    ELSE count_categories(Tail(rows),
             IF Head(rows).inclusion_exclusion_decision = << "Included" >>
             THEN count_category(categories, Head(rows).category)
             ELSE categories)

\* the summary, line by line
get_results_summary(m) ==
    LET stats == get_stats(m)
        included == count_decision(m.results, << "Included" >>)
        excluded == count_decision(m.results, << "Excluded" >>)
        categories == count_categories(m.results, << >>)
    IN  << << "## Processing Summary" >>,
           << "- **Total files processed:** ", ToString(stats.total_processed) >>,
           << "- **Successfully analyzed:** ", ToString(stats.successful) >>,
           << "- **Failed to analyze:** ", ToString(stats.failed) >> >>
        \o (IF m.results = << >> THEN << >>
            ELSE << << "### Analysis Results" >>,
                    << "- **Included papers:** ", ToString(included) >>,
                    << "- **Excluded papers:** ", ToString(excluded) >> >>
                 \o (IF included > 0
                     THEN << << "### Categories (Included Papers)" >> >>
                          \o [ k \in DOMAIN categories |->
                                 << "- **" >> \o categories[k].cat
                                 \o << ":** ", ToString(categories[k].count) >> ]
                     ELSE << >>))

get_failed_files_for_display(m) ==
    [ k \in DOMAIN m.errors |->
        [ File |-> m.errors[k].source_file,
          Error_Reason |-> m.errors[k].error_message,
          Timestamp |-> m.errors[k].timestamp ] ]

-----------------------------------------------------------------------------
(* Values of the variables a specification does not use *)

NoOutcome == Outcome(FALSE, None, NoneResult)
NoAnalysis == Analysis(EmptyDict, FALSE, None, << >>, << >>)
NoBackend == [ openai |-> Raises("E1"), stream |-> Raises("E1"), create |-> Raises("E1") ]
NoTag == [ timestamp |-> "", model_name |-> "" ]
NoReturn == [ op |-> "", value |-> << >>, path |-> << >>, written |-> << >> ]
NoTexts == [ native |-> << >>, ocr |-> << >> ]
NoExtraction == Extraction(<< >>, FALSE, None, << >>)
NoInput == [ model |-> << >>, clients |-> [ openai |-> FALSE, anthropic |-> FALSE ],
             backend |-> NoBackend ]

DriverIdle ==
    /\ status = "Idle"
    /\ model_selection = O3
    /\ openai_client = FALSE
    /\ anthropic_client = FALSE
    /\ total_files = 0
    /\ i = 0
    /\ uploaded_file = ZeroPages
    /\ extracted_text = << >>
    /\ llm_result = EmptyDict
    /\ calls = << >>
    /\ analyzed = << >>
    /\ trace = << >>

ManagerIdle ==
    /\ results = << >>
    /\ errors = << >>
    /\ clock = 0
    /\ hist = << >>

ValidateIdle == vIn = NoneResult /\ vOut = NoOutcome /\ vOut2 = NoOutcome

AnalyzeIdle == aIn = NoInput /\ aOut = << >>

ReportIdle == tag = NoTag /\ returned = NoReturn

ExtractIdle == eIn = NoTexts /\ eOut = NoExtraction /\ cOut = << >>

driverVars == << status, model_selection, openai_client, anthropic_client,
                 total_files, i, uploaded_file, extracted_text, llm_result, calls, analyzed,
                 trace >>
managerVars == << results, errors, clock, hist >>
validateVars == << vIn, vOut, vOut2 >>
analyzeVars == << aIn, aOut >>
extractVars == << eIn, eOut, cOut >>
reportVars == << tag, returned >>

-----------------------------------------------------------------------------
(* validate_result applied to a verdict, and again to the record it left   *)

InitValidate ==
    /\ pc = "validate"
    /\ vIn \in Verdicts
    /\ vOut = NoOutcome
    /\ vOut2 = NoOutcome
    /\ DriverIdle /\ ManagerIdle /\ AnalyzeIdle /\ ExtractIdle /\ ReportIdle

Validate ==
    /\ pc = "validate"
    /\ vOut' = validate_result(vIn)
    /\ pc' = "revalidate"
    /\ UNCHANGED << vIn, vOut2, driverVars, managerVars, analyzeVars,
                    extractVars, reportVars >>

Revalidate ==
    /\ pc = "revalidate"
    /\ vOut2' = validate_result(vOut.result)
    /\ pc' = "validated"
    /\ UNCHANGED << vIn, vOut, driverVars, managerVars, analyzeVars,
                    extractVars, reportVars >>

NextValidate == Validate \/ Revalidate

SpecValidate == InitValidate /\ [][NextValidate]_vars

-----------------------------------------------------------------------------
(* analyze_paper applied to texts of every length of TextLengths, with the *)
(* same selector, clients and backend answers                              *)

TextLengths ==
    { 0, 200000, 200004, 400000, 400004, 600000, 600004,
      720000, 720003, 720004, 1000000 }

ClientStates == [ openai : BOOLEAN, anthropic : BOOLEAN ]

InitAnalyze ==
    /\ pc = "analyze_paper"
    /\ aIn \in [ model : Selectors, clients : ClientStates, backend : Backends ]
    /\ aOut = << >>
    /\ DriverIdle /\ ManagerIdle /\ ValidateIdle /\ ExtractIdle /\ ReportIdle

AnalyzeTexts ==
    /\ pc = "analyze_paper"
    /\ aOut' = [ L \in TextLengths |->
                   analyze_paper(L, aIn.model, aIn.clients, aIn.backend) ]
    /\ pc' = "analyzed"
    /\ UNCHANGED << aIn, driverVars, managerVars, validateVars, extractVars, reportVars >>

NextAnalyze == AnalyzeTexts

SpecAnalyze == InitAnalyze /\ [][NextAnalyze]_vars

-----------------------------------------------------------------------------
(* The aggregator under any sequence of add_result and add_error calls     *)

SetManager(m) ==
    /\ results' = m.results
    /\ errors' = m.errors
    /\ clock' = m.clock

SourceFiles == 1 .. 2

ErrorMessages == { << "failed" >>, << >> }

\* an included verdict in each of two categories, an excluded one, a dict
\* without any field, None and a list
ManagerVerdicts == { Good, GoodFLW, ExcludedClient, EmptyDict, NoneResult, ListResult }

\* ResultsManager(model_name): the run timestamp and the sanitized model name
ManagerTags ==
    { [ timestamp |-> RunTimestamp, model_name |-> _sanitize_model_name(n) ] :
        n \in { O3, << >> } }

InitManager ==
    /\ pc = "manager"
    /\ results = << >>
    /\ errors = << >>
    /\ clock = 0
    /\ hist = << >>
    /\ tag \in ManagerTags
    /\ returned = NoReturn
    /\ DriverIdle /\ ValidateIdle /\ AnalyzeIdle /\ ExtractIdle

CallAddResult ==
    /\ pc = "manager"
    /\ Len(hist) < MaxCalls
    /\ \E v \in ManagerVerdicts, f \in SourceFiles :
          /\ SetManager(add_result(Manager, v, f))
          /\ hist' = Append(hist, [ op |-> "add_result", kind |-> v.kind, file |-> f ])
    /\ returned' = NoReturn
    /\ UNCHANGED << pc, tag, driverVars, validateVars, analyzeVars, extractVars >>

CallAddError ==
    /\ pc = "manager"
    /\ Len(hist) < MaxCalls
    /\ \E f \in SourceFiles, msg \in ErrorMessages :
          /\ SetManager(add_error(Manager, f, msg))
          /\ hist' = Append(hist, [ op |-> "add_error", kind |-> "str", file |-> f ])
    /\ returned' = NoReturn
    /\ UNCHANGED << pc, tag, driverVars, validateVars, analyzeVars, extractVars >>

\* the frame of the calls that only read the manager
ReadOnly ==
    UNCHANGED << pc, tag, managerVars, driverVars, validateVars, analyzeVars, extractVars >>

CallGetStats ==
    /\ pc = "manager"
    /\ returned' = Return("get_stats", get_stats(Manager), << >>, << >>)
    /\ ReadOnly

CallExportToCsvClears ==
    /\ pc = "manager"
    /\ returned' = export_to_csv(Manager, tag)
    /\ results' = << >>
    /\ UNCHANGED << pc, tag, errors, clock, hist, driverVars, validateVars, analyzeVars,
                    extractVars >>

CallExportToCsv ==
    /\ pc = "manager"
    /\ returned' = export_to_csv(Manager, tag)
    /\ ReadOnly

CallExportErrorsToCsv ==
    /\ pc = "manager"
    /\ returned' = export_errors_to_csv(Manager, tag)
    /\ ReadOnly

CallExportErrorsToText ==
    /\ pc = "manager"
    /\ returned' = export_errors_to_text(Manager, tag)
    /\ ReadOnly

CallGetResultsSummary ==
    /\ pc = "manager"
    /\ returned' = Return("get_results_summary", get_results_summary(Manager), << >>, << >>)
    /\ ReadOnly

CallGetFailedFiles ==
    /\ pc = "manager"
    /\ returned' = Return("get_failed_files_for_display",
                          get_failed_files_for_display(Manager), << >>, << >>)
    /\ ReadOnly

NextManager ==
    \/ CallAddResult
    \/ CallAddError
    \/ CallGetStats
    \/ CallExportToCsv
    \/ CallExportErrorsToCsv
    \/ CallExportErrorsToText
    \/ CallGetResultsSummary
    \/ CallGetFailedFiles

SpecManager == InitManager /\ [][NextManager]_vars

-----------------------------------------------------------------------------
(* extract_text_from_pdf on a one-page document, and _clean_text on the    *)
(* page's native text                                                      *)

SampleChars == { "x", " ", "\n", "\t", "NUL", "e-acute" }
SampleRuns == { Run(c, n) : c \in SampleChars, n \in { 1, 3 } }

\* the texts of at most MaxRuns runs
SampleTexts ==
    { t \in UNION { [ 1 .. k -> SampleRuns ] : k \in 0 .. MaxRuns } :
        \A j \in 1 .. (Len(t) - 1) : t[j].c # t[j + 1].c }

\* texts around ocr_threshold, with and without whitespace
BoundaryTexts ==
    { Chars(" ", w1) \o Chars("x", a) \o Chars(ws, w2) \o Chars(c, b) :
        w1 \in { 0, 2 }, a \in { 24, 48, 49, 50 }, ws \in { "\n", "\t" },
        w2 \in { 1, 500 }, c \in { "y", "NUL" }, b \in { 0, 1, 25 } }

\* what image_to_string returns for the page
ScanTexts ==
    { << >>, Chars("\n", 2),
      Chars("NUL", 1) \o Chars(" ", 1) \o Chars("z", 60) \o Chars(" ", 1)
          \o Chars("e-acute", 1) \o Chars(" ", 1) \o Chars("z", 1) \o Chars("\n", 3) }

OnePage(texts) == Doc("", "", << Page(texts.native, texts.ocr) >>)

InitExtract ==
    /\ pc = "extract"
    /\ eIn \in [ native : SampleTexts \cup BoundaryTexts, ocr : ScanTexts ]
    /\ eOut = NoExtraction
    /\ cOut = << >>
    /\ DriverIdle /\ ManagerIdle /\ ValidateIdle /\ AnalyzeIdle /\ ReportIdle

ExtractFromPage ==
    /\ pc = "extract"
    /\ eOut' = extract_text_from_pdf(OnePage(eIn))
    /\ pc' = "clean"
    /\ UNCHANGED << eIn, cOut, driverVars, managerVars, validateVars, analyzeVars,
                    reportVars >>

CleanNative ==
    /\ pc = "clean"
    /\ cOut' = _clean_text(eIn.native)
    /\ pc' = "extracted"
    /\ UNCHANGED << eIn, eOut, driverVars, managerVars, validateVars, analyzeVars,
                    reportVars >>

NextExtract == ExtractFromPage \/ CleanNative

SpecExtract == InitExtract /\ [][NextExtract]_vars

-----------------------------------------------------------------------------
(* ResultsManager(model_name): the model tag of a new manager *)

\* model names as the providers and the user interface write them
SampleNames ==
    { O3, ClaudeOpus4,
      << "O", "3" >>,
      << "o", "3", "-", "m", "i", "n", "i" >>,
      << "o", "3", "-", "p", "r", "o", "-", "o", "3" >>,
      << "g", "p", "t", "-", "4", "o" >>,
      << "g", "p", "t", "_", "_", "4", " ", "_", "o" >>,
      << "o", "1", " ", "(", "p", "r", "o", ")" >>,
      ClaudeOpus4 \o << "-", "2", "0", "2", "5", "0", "5", "1", "4" >>,
      << "C", "L", "A", "U", "D", "E", "-", "O", "P", "U", "S", "-", "4", ".", "1" >>,
      << "C", "l", "a", "u", "d", "e", " ", "O", "p", "u", "s", " ", "4", ".", "1" >>,
      << "c", "l", "a", "u", "d", "e", "-", "s", "o", "n", "n", "e", "t", "-", "4" >>,
      << "o", "3", "\n", "m", "i", "n", "i" >>,
      << "x", "/" >> \o ClaudeOpus4 \o << "@", "o", "3" >> }

NameChars == { "o", "O", "3", "-", "_", " ", "." }

\* every string of at most MaxChars characters of NameChars
ShortNames == UNION { [ 1 .. n -> NameChars ] : n \in 0 .. MaxChars }

ModelNames == SampleNames \cup ShortNames

InitSanitize ==
    /\ pc = "construct"
    /\ model_selection \in ModelNames
    /\ tag = NoTag
    /\ returned = NoReturn
    /\ status = "Idle"
    /\ openai_client = FALSE
    /\ anthropic_client = FALSE
    /\ total_files = 0
    /\ i = 0
    /\ uploaded_file = ZeroPages
    /\ extracted_text = << >>
    /\ llm_result = EmptyDict
    /\ calls = << >>
    /\ analyzed = << >>
    /\ trace = << >>
    /\ ManagerIdle /\ ValidateIdle /\ AnalyzeIdle /\ ExtractIdle

\* results_manager = ResultsManager(model_name=model_selection)
NewResultsManager ==
    /\ pc = "construct"
    /\ tag' = [ timestamp |-> RunTimestamp,
                model_name |-> _sanitize_model_name(model_selection) ]
    /\ pc' = "manager"
    /\ UNCHANGED << returned, driverVars, managerVars, validateVars, analyzeVars,
                    extractVars >>

\* an export of the new, empty manager
ExportNew ==
    /\ pc = "manager"
    /\ returned' = export_to_csv(Manager, tag)
    /\ pc' = "exported"
    /\ UNCHANGED << tag, driverVars, managerVars, validateVars, analyzeVars, extractVars >>

NextSanitize == NewResultsManager \/ ExportNew

SpecSanitize == InitSanitize /\ [][NextSanitize]_vars

-----------------------------------------------------------------------------
(* The "Process PDFs" run of app.py *)

Clients == [ openai |-> openai_client, anthropic |-> anthropic_client ]

\* the backend answers of the modelled run
RunBackends ==
    [ openai : { Raises("E1"), Completion(GarbageText), Completion(JsonText(NoneResult)),
                 Completion(JsonText(Good)), Completion(JsonText(ExcludedClient)),
                 Completion(JsonText(BlankTitle)) },
      stream : { Raises("E1") },
      create : { Raises("E2") } ]
    \cup
    [ openai : { Raises("E1") },
      stream : { Raises("E1"), Message(<< TextBlock(GarbageText) >>),
                 Message(<< ToolUse(Good) >>), Message(<< ToolUse(ExcludedClient) >>),
                 Message(<< ToolUse(BadCategory) >>) },
      create : { Raises("E2"), Message(<< >>), Message(<< ToolUse(ExcludedNA) >>) } ]

\* the pc values inside the try block of the loop body
InTry == { "is_pdf_readable", "extract_text_from_pdf", "analyze_paper",
           "validate_result", "add_result", "display" }

Init ==
    /\ pc = "is_pdf_readable"
    /\ status = "Processing"
    /\ model_selection \in model_options
    /\ openai_client \in BOOLEAN
    /\ anthropic_client \in BOOLEAN
    /\ total_files \in 1 .. MaxDocs
    /\ i = 1
    /\ uploaded_file = ZeroPages
    /\ extracted_text = << >>
    /\ llm_result = EmptyDict
    /\ results = << >>
    /\ errors = << >>
    /\ clock = 0
    /\ calls = << >>
    /\ analyzed = [ d \in 1 .. total_files |-> 0 ]
    /\ trace = << >>
    /\ hist = << >>
    /\ ValidateIdle /\ AnalyzeIdle /\ ExtractIdle /\ ReportIdle

\* a step of the loop body on the doc-th upload, and whether it succeeded
Step(doc, file, step, ok) == [ doc |-> doc, file |-> file, step |-> step, ok |-> ok ]

\* a step with what the stage returned: its flag, its error and its payload
StageStep(doc, file, step, ok, error, payload) ==
    [ doc |-> doc, file |-> file, step |-> step, ok |-> ok, error |-> error,
      payload |-> payload ]

\* the for statement takes the next uploaded file, or the loop ends
next_iteration ==
    /\ i' = i + 1
    /\ pc' = IF i < total_files THEN "is_pdf_readable" ELSE "final_status"

\* fault: the failed document is taken again
record_error_and_retry(message) ==
    /\ SetManager(add_error(Manager, i, message))
    /\ hist' = Append(hist, [ op |-> "add_error", kind |-> "str", file |-> i ])
    /\ i' = i
    /\ pc' = "is_pdf_readable"

\* fault: the loop goes on to the next document without recording the failure
record_error_and_continue_unrecorded(message) ==
    /\ UNCHANGED managerVars
    /\ next_iteration

\* results_manager.add_error(uploaded_file.name, message); continue
record_error_and_continue(message) ==
    /\ SetManager(add_error(Manager, i, message))
    /\ hist' = Append(hist, [ op |-> "add_error", kind |-> "str", file |-> i ])
    /\ next_iteration

IsReadable ==
    /\ pc = "is_pdf_readable"
    /\ \E doc \in Uploads :
          /\ uploaded_file' = doc
          /\ LET r == is_pdf_readable(doc) IN
             /\ trace' = Append(trace, StageStep(i, doc, "is_pdf_readable", r.ok, r.error, << >>))
             /\ IF ~r.ok
                THEN record_error_and_continue(r.error)
                ELSE /\ pc' = "extract_text_from_pdf"
                     /\ UNCHANGED << i, managerVars >>
    /\ UNCHANGED << status, model_selection, openai_client, anthropic_client,
                    total_files, extracted_text, llm_result, calls, analyzed,
                    validateVars, analyzeVars,
                    extractVars, reportVars >>

\* fault: a failed extraction is recorded but the loop body goes on
ExtractTextNoContinue ==
    /\ pc = "extract_text_from_pdf"
    /\ \E r \in { extraction_of[uploaded_file] } :
          /\ extracted_text' = r.text
          /\ trace' = Append(trace, StageStep(i, uploaded_file, "extract_text_from_pdf",
                                              r.success, r.error, r.text))
          /\ pc' = "analyze_paper"
          /\ IF ~r.success
             THEN /\ SetManager(add_error(Manager, i,
                                          << "Text extraction failed: " >> \o r.error))
                  /\ hist' = Append(hist, [ op |-> "add_error", kind |-> "str", file |-> i ])
                  /\ i' = i
             ELSE UNCHANGED << i, managerVars >>
    /\ UNCHANGED << status, model_selection, openai_client, anthropic_client,
                    total_files, uploaded_file, llm_result, calls, analyzed,
                    validateVars, analyzeVars,
                    extractVars, reportVars >>

ExtractText ==
    /\ pc = "extract_text_from_pdf"
    /\ \E r \in { extraction_of[uploaded_file] } :
          /\ extracted_text' = r.text
          /\ trace' = Append(trace, StageStep(i, uploaded_file, "extract_text_from_pdf",
                                              r.success, r.error, r.text))
          /\ IF ~r.success
             THEN record_error_and_continue(<< "Text extraction failed: " >> \o r.error)
             ELSE /\ pc' = "analyze_paper"
                  /\ UNCHANGED << i, managerVars >>
    /\ UNCHANGED << status, model_selection, openai_client, anthropic_client,
                    total_files, uploaded_file, llm_result, calls, analyzed,
                    validateVars, analyzeVars,
                    extractVars, reportVars >>

AnalyzePaper ==
    /\ pc = "analyze_paper"
    /\ \E backend \in RunBackends :
          \E a \in { analyze_paper(text_len(extracted_text), model_selection,
                                  Clients, backend) } :
              /\ llm_result' = a.result
              /\ calls' = calls \o [ k \in 1 .. Len(a.calls) |->
                                       [ doc |-> i, api |-> a.calls[k] ] ]
              /\ analyzed' = [ analyzed EXCEPT ![i] = @ + 1 ]
              /\ trace' = Append(trace, StageStep(i, uploaded_file, "analyze_paper",
                                                  a.success, a.error, a.result))
              /\ IF ~a.success
                 THEN record_error_and_continue(<< "LLM analysis failed: " >> \o a.error)
                 ELSE /\ pc' = "validate_result"
                      /\ UNCHANGED << i, managerVars >>
    /\ UNCHANGED << status, model_selection, openai_client, anthropic_client,
                    total_files, uploaded_file, extracted_text,
                    validateVars, analyzeVars,
                    extractVars, reportVars >>

\* fault: the record is validated on a copy, the correction is lost
ValidateResultOnCopy ==
    /\ pc = "validate_result"
    /\ LET v == validate_result(llm_result) IN
       /\ llm_result' = llm_result
       /\ trace' = Append(trace, StageStep(i, uploaded_file, "validate_result",
                                           v.ok, v.error, v.result))
       /\ IF ~v.ok
          THEN record_error_and_continue(<< "Invalid LLM response: " >> \o v.error)
          ELSE /\ pc' = "add_result"
               /\ UNCHANGED << i, managerVars >>
    /\ UNCHANGED << status, model_selection, openai_client, anthropic_client,
                    total_files, uploaded_file, extracted_text, calls, analyzed,
                    validateVars, analyzeVars,
                    extractVars, reportVars >>

ValidateResult ==
    /\ pc = "validate_result"
    /\ LET v == validate_result(llm_result) IN
       /\ llm_result' = v.result
       /\ trace' = Append(trace, StageStep(i, uploaded_file, "validate_result",
                                           v.ok, v.error, v.result))
       /\ IF ~v.ok
          THEN record_error_and_continue(<< "Invalid LLM response: " >> \o v.error)
          ELSE /\ pc' = "add_result"
               /\ UNCHANGED << i, managerVars >>
    /\ UNCHANGED << status, model_selection, openai_client, anthropic_client,
                    total_files, uploaded_file, extracted_text, calls, analyzed,
                    validateVars, analyzeVars,
                    extractVars, reportVars >>

StoreResult ==
    /\ pc = "add_result"
    /\ SetManager(add_result(Manager, llm_result, i))
    /\ hist' = Append(hist, [ op |-> "add_result", kind |-> llm_result.kind,
                            file |-> i ])
    /\ trace' = Append(trace, StageStep(i, uploaded_file, "add_result", TRUE, None, << >>))
    /\ pc' = "display"
    /\ UNCHANGED << status, model_selection, openai_client, anthropic_client,
                    total_files, i, uploaded_file, extracted_text, llm_result,
                    calls, analyzed, validateVars, analyzeVars,
                    extractVars, reportVars >>

\* the success message and the details expander
Display ==
    /\ pc = "display"
    /\ pc' = "update_stats"
    /\ UNCHANGED << driverVars, managerVars, validateVars, analyzeVars,
                    extractVars, reportVars >>

\* fault: no residual handler, the exception ends the script
UnexpectedAborts ==
    /\ pc \in InTry
    /\ pc' = "aborted"
    /\ UNCHANGED << driverVars, managerVars, validateVars, analyzeVars,
                    extractVars, reportVars >>

\* an exception raised anywhere in the try block reaches `except Exception`
Unexpected ==
    /\ pc \in InTry
    /\ \E e \in { "E1" } :
          SetManager(add_error(Manager, i, << "Unexpected error: ", e >>))
    /\ hist' = Append(hist, [ op |-> "add_error", kind |-> "str", file |-> i ])
    /\ pc' = "update_stats"
    /\ UNCHANGED << driverVars, validateVars, analyzeVars,
                    extractVars, reportVars >>

UpdateStats ==
    /\ pc = "update_stats"
    /\ next_iteration
    /\ UNCHANGED << status, model_selection, openai_client, anthropic_client,
                    total_files, uploaded_file, extracted_text, llm_result,
                    calls, analyzed, trace, managerVars, validateVars, analyzeVars,
                    extractVars, reportVars >>

\* the summary, the failed-files table and the exports, then the status
FinalStatus ==
    /\ pc = "final_status"
    /\ status' = "Completed"
    /\ pc' = "completed"
    /\ UNCHANGED << model_selection, openai_client, anthropic_client, total_files,
                    i, uploaded_file, extracted_text, llm_result, calls, analyzed,
                    trace, managerVars, validateVars, analyzeVars,
                    extractVars, reportVars >>

Next ==
    \/ IsReadable
    \/ ExtractText
    \/ AnalyzePaper
    \/ ValidateResult
    \/ StoreResult
    \/ Display
    \/ Unexpected
    \/ UpdateStats
    \/ FinalStatus

Spec == Init /\ [][Next]_vars

\* every call of the loop body returns or raises, so the script keeps running
FairSpec == Spec /\ WF_vars(Next)

-----------------------------------------------------------------------------
(* Properties *)

Range(f) == { f[k] : k \in DOMAIN f }

Stats == get_stats(Manager)

NumAddResult == Cardinality({ k \in DOMAIN hist : hist[k].op = "add_result" })
NumAddError == Cardinality({ k \in DOMAIN hist : hist[k].op = "add_error" })
NumProjected ==
    Cardinality({ k \in DOMAIN hist : hist[k].op = "add_result" /\ hist[k].kind = "dict" })

\* C1 as stated: successful + failed = total_processed, and after N calls of
\* add_result and M calls of add_error the stats are N, M and N + M.
C1_StatsCountCalls ==
    /\ Stats.successful + Stats.failed = Stats.total_processed
    /\ Stats.successful = NumAddResult
    /\ Stats.failed = NumAddError
    /\ Stats.total_processed = NumAddResult + NumAddError

\* C1, amended: successful + failed = total_processed; successful is the
\* number of add_result calls whose projection succeeded, failed is the
\* number of add_error calls plus the add_result calls whose projection
\* failed, and total_processed is N + M.
C1_StatsCountRecords ==
    /\ Stats.successful + Stats.failed = Stats.total_processed
    /\ Stats.successful = NumProjected
    /\ Stats.failed = NumAddError + (NumAddResult - NumProjected)
    /\ Stats.total_processed = NumAddResult + NumAddError

C1_Witness ==
    /\ Len(hist) = 3
    /\ hist[1].op = "add_error"
    /\ NumAddResult = 2
    /\ NumProjected = 1
    /\ Stats = [ total_processed |-> 3, successful |-> 1, failed |-> 2 ]

ResultsOf(d) == { k \in DOMAIN results : results[k].source_file = d }
ErrorsOf(d) == { k \in DOMAIN errors : errors[k].source_file = d }
Records(d) == Cardinality(ResultsOf(d)) + Cardinality(ErrorsOf(d))

\* C2: every processed document contributes exactly one record, a ResultRow
\* or an ErrorRecord and never both, also when the residual handler caught
\* an exception; after the K documents total_processed = K.
C2_OneRecordPerDocument ==
    /\ \A d \in 1 .. total_files :
          /\ Records(d) <= 1
          /\ d < i => Records(d) = 1
    /\ pc \in { "final_status", "completed" } => Stats.total_processed = total_files

\* C3: whatever stage failed for earlier documents, every submitted document
\* eventually has an outcome recorded and the run ends in status Completed.
C3_BatchCompletes ==
    <>( /\ pc = "completed"
        /\ status = "Completed"
        /\ \A d \in 1 .. total_files : Records(d) >= 1 )

C3_Witness ==
    /\ pc = "completed"
    /\ status = "Completed"
    /\ total_files = 2
    /\ \E k \in ErrorsOf(1) : errors[k].error_message[1] = "Unexpected error: "
    /\ ResultsOf(2) # {}

\* C4: every stored ResultRow whose decision is Excluded has category N/A.
C4_ExcludedRowsHaveNA ==
    \A k \in DOMAIN results :
        results[k].inclusion_exclusion_decision = << "Excluded" >>
            => results[k].category = << "N/A" >>

\* the backend's Excluded verdict with category Client (title "A") is stored
C4_Witness ==
    \E k \in DOMAIN results :
        /\ results[k].article_title = ExcludedClient.d["article_title"]
        /\ results[k].inclusion_exclusion_decision = << "Excluded" >>
        /\ results[k].category = << "N/A" >>

NonBlank(s) == \E k \in DOMAIN s : s[k] \notin { " ", "\t", "\n" }

AllowedCategories ==
    { << "Client" >>, << "FLW" >>, << "Feasibility" >>, << "Data" >>,
      << "Grey", " ", "Literature" >>, << "N/A" >> }

FieldsFilled(v) ==
    /\ v.kind = "dict"
    /\ \A f \in { "article_title", "inclusion_decision", "justification", "category",
                  "detailed_reasoning" } : Has(v, f) /\ NonBlank(v.d[f])

Acceptable(v) ==
    /\ FieldsFilled(v)
    /\ v.d["inclusion_decision"] \in { << "Included" >>, << "Excluded" >> }
    /\ v.d["category"] \in AllowedCategories

ExcludedWithCategory(v) ==
    /\ v.kind = "dict"
    /\ Has(v, "inclusion_decision") /\ v.d["inclusion_decision"] = << "Excluded" >>
    /\ Has(v, "category") /\ v.d["category"] # << "N/A" >>

\* C5 as stated: any verdict with inclusion_decision = Excluded and
\* category != N/A is rewritten to category = N/A, and re-validating the
\* record gives the same record and outcome.
C5_AnyExcludedRewritten ==
    /\ pc # "validate" /\ ExcludedWithCategory(vIn)
          => vOut.result.d["category"] = << "N/A" >>
    /\ pc = "validated" => vOut2 = vOut

\* C5, amended: a verdict whose five fields are present and non-blank and
\* whose category is an allowed one, with inclusion_decision = Excluded and
\* category != N/A, is rewritten to category = N/A and nothing else of it
\* changes (a verdict the field or enum checks reject is left as it is);
\* re-validating the record validate_result left gives the same record and
\* the same outcome.
C5_ValidExcludedRewritten ==
    /\ pc # "validate" /\ ExcludedWithCategory(vIn) /\ Acceptable(vIn)
          => /\ vOut.ok
             /\ vOut.result = [ vIn EXCEPT !.d["category"] = << "N/A" >> ]
    /\ pc # "validate" /\ ~(ExcludedWithCategory(vIn) /\ Acceptable(vIn))
          => vOut.result = vIn
    /\ pc = "validated" => vOut2 = vOut

C5_Witness ==
    /\ pc = "validated"
    /\ vIn = ExcludedClient
    /\ vOut.result.d["category"] = << "N/A" >>
    /\ vOut2 = vOut

\* C6: validate_result accepts exactly the verdicts whose five fields are
\* present and non-blank after trimming, with an allowed decision and an
\* allowed category; Excluded with a category other than N/A is accepted;
\* every other verdict is rejected with a non-empty error.
C6_AcceptsExactlyValid ==
    pc # "validate" =>
        /\ vOut.ok <=> Acceptable(vIn)
        /\ vOut.ok => vOut.error = None
        /\ ~vOut.ok => vOut.error # None /\ NonBlank(vOut.error)
        /\ ExcludedWithCategory(vIn) /\ Acceptable(vIn) => vOut.ok

C6_Witness ==
    /\ pc # "validate"
    /\ vIn = BlankTitle
    /\ ~vOut.ok
    /\ vOut.error = << "Empty required field: ", "article_title" >>

Refused(a) ==
    /\ ~a.success
    /\ a.result = EmptyDict
    /\ a.error # None
    /\ a.error[1] = "Document too large ("

AnthropicApis == { AnthropicStream, AnthropicCreate }

\* C7: a text of length L is refused as too large iff L // 4 > 180000
\* (720000 is not, 720004 is), and a refusal makes no backend call.
C7_TokenCutoff ==
    pc = "analyzed" =>
        /\ \A L \in TextLengths :
              /\ Refused(aOut[L]) <=> (L \div 4 > 180000)
              /\ Refused(aOut[L]) => aOut[L].calls = << >>
        /\ ~Refused(aOut[180000 * 4])
        /\ Refused(aOut[180001 * 4])

C7_Witness ==
    /\ pc = "analyzed"
    /\ aIn.model = ClaudeOpus4
    /\ aIn.clients.anthropic
    /\ Refused(aOut[720004])
    /\ aOut[720004].calls = << >>
    /\ aOut[720003].calls # << >>

BelowCutoff(L) == L \div 4 <= 180000

SameAnalysis(a, b) ==
    /\ a.result = b.result
    /\ a.success = b.success
    /\ a.error = b.error
    /\ a.calls = b.calls

\* C8: two texts below the cutoff, with the same selector, clients and
\* backend answers, get the same calls and the same (verdict, success,
\* error); the streaming provider is always called by stream first.
C8_ThresholdsOnlyLog ==
    pc = "analyzed" =>
        /\ \A L1, L2 \in TextLengths :
              BelowCutoff(L1) /\ BelowCutoff(L2) => SameAnalysis(aOut[L1], aOut[L2])
        /\ \A L \in TextLengths :
              Range(aOut[L].calls) \cap AnthropicApis # {}
                  => aOut[L].calls[1] = AnthropicStream

C8_Witness ==
    /\ pc = "analyzed"
    /\ aIn.model = ClaudeOpus4
    /\ aOut[0].success
    /\ aOut[0].calls = << AnthropicStream >>
    /\ aOut[600004].calls = << AnthropicStream >>
    /\ aOut[600004].log # aOut[0].log

\* the selector routes to the streaming provider and its client is set
StreamingRoute ==
    /\ Contains(lower(aIn.model), << "c", "l", "a", "u", "d", "e" >>)
    /\ ~Contains(lower(aIn.model), << "o", "3" >>)
    /\ aIn.clients.anthropic

\* C9: the streaming provider is called by stream first; the synchronous
\* call is made iff the streaming attempt raised; when both raise, the error
\* holds both messages; when the fallback yields a verdict, it is returned
\* as a success.
C9_StreamingFallback ==
    pc = "analyzed" /\ StreamingRoute =>
        \A L \in { T \in TextLengths : BelowCutoff(T) } :
            LET a == aOut[L]
                s == aIn.backend.stream
                c == aIn.backend.create
            IN  /\ a.calls # << >> /\ a.calls[1] = AnthropicStream
                /\ a.calls \in { << AnthropicStream >>,
                                 << AnthropicStream, AnthropicCreate >> }
                /\ AnthropicCreate \in Range(a.calls) <=> s.exc # ""
                /\ s.exc # "" /\ c.exc # ""
                      => /\ ~a.success
                         /\ \E j, k \in DOMAIN a.error :
                               j < k /\ a.error[j] = s.exc /\ a.error[k] = c.exc
                /\ s.exc # "" /\ c.exc = "" /\ parse_content(c.content).found
                      => /\ a.success
                         /\ a.error = None
                         /\ a.result = parse_content(c.content).result

C9_Witness ==
    /\ pc = "analyzed"
    /\ StreamingRoute
    /\ aIn.backend.stream.exc = "E1"
    /\ aIn.backend.create.exc = "E2"
    /\ aOut[0].calls = << AnthropicStream, AnthropicCreate >>
    /\ ~aOut[0].success
    /\ Contains(aOut[0].error, << "E1", " | Fallback: ", "E2" >>)

ApisOf(d) ==
    LET mine == SelectSeq(calls, LAMBDA c : c.doc = d)
    IN  [ k \in 1 .. Len(mine) |-> mine[k].api ]

\* C10: for one document analyze is called at most once, the non-streaming
\* backend at most once, the streaming backend at most twice (stream, then
\* at most one synchronous call); a failed document is not taken again.
C10_NoRetry ==
    /\ \A d \in 1 .. total_files :
          /\ analyzed[d] <= 1
          /\ d > i => analyzed[d] = 0 /\ Records(d) = 0
          /\ ApisOf(d) \in { << >>, << OpenAICreate >>, << AnthropicStream >>,
                             << AnthropicStream, AnthropicCreate >> }
          /\ Cardinality(ErrorsOf(d)) <= 1
    /\ \A k, l \in DOMAIN calls : k < l => calls[k].doc <= calls[l].doc

C10_Witness ==
    /\ pc = "completed"
    /\ total_files = 2
    /\ ApisOf(1) = << AnthropicStream, AnthropicCreate >>
    /\ Cardinality(ErrorsOf(1)) = 1
    /\ ResultsOf(1) = {}
    /\ analyzed[1] = 1
    /\ analyzed[2] = 1

\* the provider the selector names: "o3" is looked for first, then "claude"
NamedProvider(model) ==
    IF Contains(lower(model), << "o", "3" >>) THEN "openai"
    ELSE IF Contains(lower(model), << "c", "l", "a", "u", "d", "e" >>) THEN "anthropic"
    ELSE "none"

NotInitialized(a, provider) ==
    /\ ~a.success
    /\ a.result = EmptyDict
    /\ a.error = IF provider = "openai" THEN << "OpenAI client not initialized" >>
                 ELSE << "Anthropic client not initialized" >>

ClientMissing ==
    \/ NamedProvider(aIn.model) = "openai" /\ ~aIn.clients.openai
    \/ NamedProvider(aIn.model) = "anthropic" /\ ~aIn.clients.anthropic

\* C11 as stated: whenever the client of the provider the selector names is
\* not initialized, analyze_paper fails with "client not initialized" and
\* makes no backend call, for every text.
C11_AlwaysNotInitialized ==
    pc = "analyzed" /\ ClientMissing =>
        \A L \in TextLengths :
            /\ NotInitialized(aOut[L], NamedProvider(aIn.model))
            /\ aOut[L].calls = << >>

\* C11 amended: with the named provider's client not initialized,
\* analyze_paper makes no backend call for any text, whatever the other
\* client is; a text within the token cutoff fails with "client not
\* initialized", a text over the cutoff fails as too large.
C11_MissingClientRefused ==
    pc = "analyzed" /\ ClientMissing =>
        \A L \in TextLengths :
            /\ aOut[L].calls = << >>
            /\ ~aOut[L].success
            /\ L \div 4 <= 180000 => NotInitialized(aOut[L], NamedProvider(aIn.model))
            /\ L \div 4 > 180000 => Refused(aOut[L])

C11_Witness ==
    /\ pc = "analyzed"
    /\ aIn.model = O3
    /\ ~aIn.clients.openai
    /\ aIn.clients.anthropic
    /\ aIn.backend.stream = Message(<< ToolUse(Good) >>)
    /\ aIn.backend.openai = Completion(JsonText(Good))
    /\ aOut[0].error = << "OpenAI client not initialized" >>
    /\ aOut[0].calls = << >>
    /\ Refused(aOut[720004])

\* the failures whose message starts with "Unexpected response format"
UnexpectedFormat(a) ==
    /\ ~a.success
    /\ a.result = EmptyDict
    /\ a.error \in
          { << "Unexpected response format from Anthropic" >>,
            << "Unexpected response format from Anthropic (both streaming and non-streaming failed)" >>,
            << "Unexpected response format from OpenAI" >> }

HasToolUse(content) == \E k \in DOMAIN content : content[k].type = "tool_use"

FirstToolUse(content) ==
    content[CHOOSE k \in DOMAIN content :
               /\ content[k].type = "tool_use"
               /\ \A j \in 1 .. (k - 1) : content[j].type # "tool_use"].input

\* what the claim asks of a response of the streaming provider
ParsedAsClaimed(a, content) ==
    IF HasToolUse(content)
    THEN a.success /\ a.result = FirstToolUse(content) /\ a.error = None
    ELSE IF content # << >> /\ content[1].type = "text" /\ content[1].text.kind = "json"
    THEN a.success /\ a.result = content[1].text.value /\ a.error = None
    ELSE UnexpectedFormat(a)

\* the same for the text the non-streaming provider answers with
TextParsedAsClaimed(a, text) ==
    IF text.kind = "json"
    THEN a.success /\ a.result = text.value /\ a.error = None
    ELSE UnexpectedFormat(a)

\* C12 for the streaming provider: a tool_use block is the verdict, before
\* any text; failing that the first block's text is parsed as JSON; failing
\* that the failure is "Unexpected response format", after the streaming call
\* as well as after the synchronous call that follows a failed stream.
AnthropicParsedAsClaimed ==
    pc = "analyzed" /\ NamedProvider(aIn.model) = "anthropic" /\ aIn.clients.anthropic =>
        LET s == aIn.backend.stream
            c == aIn.backend.create
        IN  /\ s.exc = "" => ParsedAsClaimed(aOut[0], s.content)
            /\ s.exc # "" /\ c.exc = "" => ParsedAsClaimed(aOut[0], c.content)

\* C12: for either provider, a response that answered without raising is
\* parsed as the claim says: tool invocation first, else the text as JSON,
\* else an "Unexpected response format" failure with an empty verdict.
C12_ParseFailureTyped ==
    /\ AnthropicParsedAsClaimed
    /\ pc = "analyzed" /\ NamedProvider(aIn.model) = "openai" /\ aIn.clients.openai
           /\ aIn.backend.openai.exc = ""
          => TextParsedAsClaimed(aOut[0], aIn.backend.openai.text)

\* before step k, the same document passed the step `step`
Passed(k, step) ==
    \E j \in 1 .. (k - 1) :
        /\ trace[j].doc = trace[k].doc
        /\ trace[j].file = trace[k].file
        /\ trace[j].step = step
        /\ trace[j].ok

\* before step k, the same document passed `first` and after it `second`
PassedInOrder(k, first, second) ==
    \E j \in 1 .. (k - 1) :
        /\ trace[j].doc = trace[k].doc
        /\ trace[j].step = second
        /\ trace[j].ok
        /\ Passed(j, first)

\* C13: analyze_paper is called for a document only after is_pdf_readable
\* returned true and then extract_text_from_pdf succeeded for that document;
\* add_result only after analyze_paper succeeded and then validate_result
\* returned ok; a document that fails is_pdf_readable (as every zero-page
\* document does) or the extraction takes no further step, is never
\* analyzed and has an ErrorRecord with a non-empty message.
C13_GatingOrder ==
    \A k \in DOMAIN trace :
        LET t == trace[k] IN
        /\ t.step = "analyze_paper" =>
              /\ PassedInOrder(k, "is_pdf_readable", "extract_text_from_pdf")
              /\ Passed(k, "extract_text_from_pdf")
              /\ Len(t.file.pages) > 0
        /\ t.step = "add_result" =>
              /\ PassedInOrder(k, "analyze_paper", "validate_result")
              /\ Passed(k, "validate_result")
        /\ t.step = "is_pdf_readable" /\ Len(t.file.pages) = 0 => ~t.ok
        /\ t.step \in { "is_pdf_readable", "extract_text_from_pdf" } /\ ~t.ok =>
              /\ \A j \in DOMAIN trace : j > k => trace[j].doc # t.doc
              /\ analyzed[t.doc] = 0
              /\ \A c \in DOMAIN calls : calls[c].doc # t.doc
              /\ \E e \in ErrorsOf(t.doc) :
                    /\ errors[e].error_message # << >>
                    /\ NonBlank(errors[e].error_message)

C13_Witness ==
    /\ pc = "completed"
    /\ total_files = 2
    /\ [ k \in DOMAIN trace |->
            Step(trace[k].doc, trace[k].file, trace[k].step, trace[k].ok) ]
           = << Step(1, ZeroPages, "is_pdf_readable", FALSE),
                  Step(2, NativeText, "is_pdf_readable", TRUE),
                  Step(2, NativeText, "extract_text_from_pdf", TRUE),
                  Step(2, NativeText, "analyze_paper", TRUE),
                  Step(2, NativeText, "validate_result", TRUE),
                  Step(2, NativeText, "add_result", TRUE) >>
    /\ Len(errors) = 1
    /\ errors[1].source_file = 1
    /\ errors[1].error_message = << "PDF has no pages" >>
    /\ Len(results) = 1
    /\ results[1].source_file = 2
    /\ analyzed = << 0, 1 >>

\* number of characters of text that are not whitespace
RECURSIVE non_space(_)
non_space(text) ==
    IF text = << >> THEN 0
    ELSE (IF Head(text).c \in { " ", "\t", "\n", "\r", "\f" } THEN 0 ELSE Head(text).n)
         + non_space(Tail(text))

OcrTried == "ocr" \in Range(eOut.steps)

\* C14: the OCR path is taken exactly when the native text holds fewer than
\* 50 characters that are not whitespace, whatever whitespace it holds; a
\* sufficient native text is returned sanitized without the OCR path.
C14_SufficiencyThreshold ==
    pc # "extract" =>
        /\ eOut.steps[1] = "native"
        /\ OcrTried <=> non_space(eIn.native) < 50
        /\ non_space(eIn.native) >= 50 =>
              eOut.success /\ eOut.text = _clean_text(eIn.native)

C14_Witness ==
    /\ pc = "extracted"
    /\ eIn.native = Chars(" ", 2) \o Chars("x", 49) \o Chars("\n", 500)
    /\ OcrTried
    /\ non_space(eIn.native) = 49

C14_WitnessFifty ==
    /\ pc = "extracted"
    /\ eIn.native = Chars("x", 49) \o Chars("\t", 500) \o Chars("y", 1)
    /\ ~OcrTried
    /\ eOut.success

\* printable ASCII (0x20-0x7E) among the characters of the texts, newline, tab
AllowedChars == { "x", "y", "z", " " } \cup { "\n", "\t" }

OnlyAllowedChars(text) == \A k \in DOMAIN text : text[k].c \in AllowedChars

\* no three newlines in a row
NoThreeNewlines(text) ==
    \A j, k \in DOMAIN text :
        j <= k /\ (\A m \in j .. k : text[m].c = "\n") => newlines(SubSeq(text, j, k)) < 3

\* C15: the text _clean_text returns, and the text extract_text_from_pdf
\* returns, holds printable ASCII, newline and tab only, and no three
\* consecutive newlines.
C15_OnlyPrintable ==
    /\ pc = "extracted" => OnlyAllowedChars(cOut) /\ NoThreeNewlines(cOut)
    /\ pc # "extract" => OnlyAllowedChars(eOut.text) /\ NoThreeNewlines(eOut.text)

C15_Witness ==
    /\ pc = "extracted"
    /\ eIn.native = << Run("NUL", 1), Run("\n", 3), Run("e-acute", 3) >>
    /\ eIn.ocr = Chars("NUL", 1) \o Chars(" ", 1) \o Chars("z", 60) \o Chars(" ", 1)
                     \o Chars("e-acute", 1) \o Chars(" ", 1) \o Chars("z", 1) \o Chars("\n", 3)
    /\ cOut = Chars(" ", 1)
    /\ eOut.success
    /\ eOut.text = Chars(" ", 1) \o Chars("z", 60) \o Chars(" ", 2) \o Chars("z", 1)

IsSpace(c) == c \in { " ", "\t", "\n", "\r", "\f" }

\* no whitespace at either end, no two whitespace characters in a row
Trimmed(text) ==
    /\ text # << >> => ~IsSpace(text[1].c) /\ ~IsSpace(text[Len(text)].c)
    /\ \A k \in DOMAIN text : IsSpace(text[k].c) => text[k].n = 1
    /\ \A k \in 1 .. (Len(text) - 1) : ~(IsSpace(text[k].c) /\ IsSpace(text[k + 1].c))

\* C16: the text _clean_text returns, and the text extract_text_from_pdf
\* returns, has no leading or trailing whitespace and no two consecutive
\* whitespace characters, also when the input holds control or non-ASCII
\* characters next to whitespace or at an end.
C16_Trimmed ==
    /\ pc = "extracted" => Trimmed(cOut)
    /\ pc # "extract" => Trimmed(eOut.text)

Last(s) == s[Len(s)]

\* the step is a call of op: the aggregator's call history grew by it
Called(op) == Len(hist') = Len(hist) + 1 /\ Last(hist').op = op

\* seq' is seq with one record appended
AppendedOne(before, after) ==
    /\ Len(after) = Len(before) + 1
    /\ SubSeq(after, 1, Len(before)) = before

\* C17: a call of add_result with a verdict that cannot be projected (not a
\* dict) returns, leaves results unchanged and appends exactly one
\* ErrorRecord, for the same source_file, to errors.
C17_AddResultRedirects ==
    [][ Called("add_result") /\ Last(hist').kind # "dict" =>
            /\ pc' = pc
            /\ results' = results
            /\ AppendedOne(errors, errors')
            /\ Last(errors').source_file = Last(hist').file
            /\ Last(errors').error_message[1] = "Error adding result: " ]_vars

C17_Witness ==
    /\ Len(hist) = 2
    /\ hist[1] = [ op |-> "add_result", kind |-> "dict", file |-> 1 ]
    /\ hist[2] = [ op |-> "add_result", kind |-> "none", file |-> 2 ]
    /\ Len(results) = 1
    /\ Len(errors) = 1
    /\ errors[1].source_file = 2


-----------------------------------------------------------------------------
(* Frame of the ResultsManager operations *)

\* seq' starts with seq: nothing recorded was modified or removed
Extends(before, after) ==
    /\ Len(after) >= Len(before)
    /\ SubSeq(after, 1, Len(before)) = before

ReadOperations ==
    { "get_stats", "get_results_summary", "export_to_csv", "export_errors_to_csv",
      "export_errors_to_text", "get_failed_files_for_display" }

\* the step is a call of a reading operation: it returned a value
Read == returned'.op \in ReadOperations

\* C18: results and errors are append-only and changed only by add_result
\* and add_error. add_error appends one ErrorRecord at the end of errors and
\* leaves results and the earlier ErrorRecords unchanged; an add_result that
\* succeeds appends one ResultRow at the end of results and leaves errors and
\* the earlier rows unchanged; get_stats, the summary, the three exports and
\* get_failed_files_for_display leave results, errors, the run timestamp and
\* the model tag unchanged; no record is ever modified or removed.
C18_AppendOnly ==
    [][ /\ Extends(results, results') /\ Extends(errors, errors')
        /\ Called("add_error") => AppendedOne(errors, errors') /\ results' = results
        /\ Called("add_result") /\ Last(hist').kind = "dict" =>
               AppendedOne(results, results') /\ errors' = errors
        /\ Read => results' = results /\ errors' = errors /\ tag' = tag
        /\ ~ (Called("add_result") \/ Called("add_error")) =>
               results' = results /\ errors' = errors /\ tag' = tag ]_vars

\* an export was called on a manager holding a row and an error record, both
\* added by the two mutating operations
C18_Witness ==
    /\ pc = "manager"
    /\ \E j, k \in DOMAIN hist :
          /\ hist[j].op = "add_result" /\ hist[j].kind = "dict"
          /\ hist[k].op = "add_error"
    /\ Len(results) >= 1 /\ Len(errors) >= 1
    /\ returned.op = "export_to_csv"


-----------------------------------------------------------------------------
(* The summary *)

\* the summary of the manager as it is now was returned
SummaryReturned == pc = "manager" /\ returned.op = "get_results_summary"

HasLine(lines, line) == \E k \in DOMAIN lines : lines[k] = line

\* the rows of results with the given decision
RowsDecided(decision) ==
    { k \in DOMAIN results : results[k].inclusion_exclusion_decision = decision }

IncludedRows == RowsDecided(<< "Included" >>)

ExcludedRows == RowsDecided(<< "Excluded" >>)

\* the included rows of a category, and the first of them
IncludedOf(cat) == { k \in IncludedRows : results[k].category = cat }

FirstIncludedOf(cat) == CHOOSE k \in IncludedOf(cat) : \A j \in IncludedOf(cat) : k <= j

\* a category line "- **<cat>:** <count>" read back
LineCategory(line) == SubSeq(line, 2, Len(line) - 2)

LineCount(line) == CHOOSE c \in 0 .. Len(results) : ToString(c) = Last(line)

RECURSIVE SumCounts(_)
SumCounts(lines) ==
    IF lines = << >> THEN 0 ELSE LineCount(Head(lines)) + SumCounts(Tail(lines))

\* the three counts are always reported, first
ReportsCounts(summary) ==
    /\ Len(summary) >= 4
    /\ summary[1] = << "## Processing Summary" >>
    /\ summary[2] = << "- **Total files processed:** ", ToString(Len(results) + Len(errors)) >>
    /\ summary[3] = << "- **Successfully analyzed:** ", ToString(Len(results)) >>
    /\ summary[4] = << "- **Failed to analyze:** ", ToString(Len(errors)) >>

\* the included-vs-excluded section is there iff a ResultRow exists, and
\* reports the two counts
ReportsDecisions(summary, included, excluded) ==
    /\ HasLine(summary, << "### Analysis Results" >>) <=> results # << >>
    /\ results # << >> =>
          /\ Len(summary) >= 7
          /\ summary[5] = << "### Analysis Results" >>
          /\ summary[6] = << "- **Included papers:** ", ToString(included) >>
          /\ summary[7] = << "- **Excluded papers:** ", ToString(excluded) >>

\* the breakdown is there iff a row is Included; it lists each category of
\* the included rows once, in the order of first appearance in results, with
\* its number of included rows, and the numbers sum to the included count
ReportsCategories(summary) ==
    /\ HasLine(summary, << "### Categories (Included Papers)" >>) <=> IncludedRows # { }
    /\ IncludedRows = { } => Len(summary) <= 7
    /\ IncludedRows # { } =>
          /\ Len(summary) >= 9
          /\ summary[8] = << "### Categories (Included Papers)" >>
          /\ LET lines == SubSeq(summary, 9, Len(summary)) IN
                /\ \A k \in DOMAIN lines :
                      /\ lines[k][1] = "- **"
                      /\ lines[k][Len(lines[k]) - 1] = ":** "
                      /\ IncludedOf(LineCategory(lines[k])) # { }
                      /\ LineCount(lines[k]) = Cardinality(IncludedOf(LineCategory(lines[k])))
                /\ \A r \in IncludedRows :
                      Cardinality({ k \in DOMAIN lines :
                                      LineCategory(lines[k]) = results[r].category }) = 1
                /\ \A j, k \in DOMAIN lines :
                      j < k => FirstIncludedOf(LineCategory(lines[j]))
                                 < FirstIncludedOf(LineCategory(lines[k]))
                /\ SumCounts(lines) = Cardinality(IncludedRows)

\* C19 as stated: the summary always reports the total, successful and
\* failed counts; it has the included-vs-excluded section iff a ResultRow
\* exists, with included + excluded equal to the number of ResultRows; it
\* has the per-category breakdown iff a ResultRow is Included, each category
\* of the included rows once, in the order of first appearance, with counts
\* that sum to the included count.
C19_DecisionsCoverRows ==
    SummaryReturned =>
        /\ ReportsCounts(returned.value)
        /\ \E included, excluded \in 0 .. Len(results) :
              /\ ReportsDecisions(returned.value, included, excluded)
              /\ included + excluded = Len(results)
        /\ ReportsCategories(returned.value)

\* C19, amended: as stated, but included and excluded are the numbers of
\* ResultRows whose decision is exactly Included and exactly Excluded; their
\* sum is the number of ResultRows when every row has one of the two
\* decisions, and less when a row was projected from a verdict with another
\* or no decision.
C19_Summary ==
    SummaryReturned =>
        /\ ReportsCounts(returned.value)
        /\ ReportsDecisions(returned.value, Cardinality(IncludedRows),
                            Cardinality(ExcludedRows))
        /\ (\A k \in DOMAIN results :
               results[k].inclusion_exclusion_decision
                   \in { << "Included" >>, << "Excluded" >> })
             => Cardinality(IncludedRows) + Cardinality(ExcludedRows) = Len(results)
        /\ ReportsCategories(returned.value)

\* the summary of three included rows, the third in the category of the
\* first and the second in another one
C19_Witness ==
    /\ SummaryReturned
    /\ IncludedRows = { 1, 2, 3 }
    /\ results[1].category = results[3].category
    /\ results[1].category # results[2].category
    /\ Len(returned.value) = 10

\* the summary of a manager whose only row has no decision
C19_WitnessUndecided ==
    /\ SummaryReturned
    /\ Len(results) = 1
    /\ IncludedRows = { } /\ ExcludedRows = { }


-----------------------------------------------------------------------------
(* The CSV exports *)

\* the header of the results file
NineColumns ==
    << "article_title", "inclusion_exclusion_decision", "category",
       "detailed_reasoning_for_decision", "citation", "open_access_url",
       "confidence", "source_file", "timestamp" >>

\* the header of the errors file
ThreeColumns == << "source_file", "error_message", "timestamp" >>

ResultCells(row) ==
    << row.article_title, row.inclusion_exclusion_decision, row.category,
       row.detailed_reasoning_for_decision, row.citation, row.open_access_url,
       row.confidence, row.source_file, row.timestamp >>

ErrorCells(error) == << error.source_file, error.error_message, error.timestamp >>

\* the path of an export of this run
ExportPath(output_dir, kind, ext) ==
    << output_dir, "/", "evidence_base_classifier_", kind, "_", tag.model_name, "_",
       tag.timestamp, ext >>

\* C20: export_to_csv on an empty batch writes exactly the nine-column
\* header row and no data row, and export_errors_to_csv on an empty batch
\* exactly the three-column header row; in general each CSV export writes
\* the header followed by exactly one row per accumulated record, in the
\* order of accumulation, and returns the path it wrote.
C20_CsvExports ==
    /\ pc = "manager" /\ returned.op = "export_to_csv" =>
          /\ Len(returned.written) = Len(results) + 1
          /\ returned.written[1] = NineColumns
          /\ \A k \in DOMAIN results : returned.written[k + 1] = ResultCells(results[k])
          /\ results = << >> => returned.written = << NineColumns >>
          /\ returned.path = ExportPath("output", "results", ".csv")
          /\ returned.value = returned.path
    /\ pc = "manager" /\ returned.op = "export_errors_to_csv" =>
          /\ Len(returned.written) = Len(errors) + 1
          /\ returned.written[1] = ThreeColumns
          /\ \A k \in DOMAIN errors : returned.written[k + 1] = ErrorCells(errors[k])
          /\ errors = << >> => returned.written = << ThreeColumns >>
          /\ returned.path = ExportPath("output", "errors", ".csv")
          /\ returned.value = returned.path

\* the results of a batch with failures only were exported: a header-only file
C20_Witness ==
    /\ pc = "manager" /\ returned.op = "export_to_csv"
    /\ results = << >> /\ errors # << >>
    /\ Len(returned.written) = 1

\* the errors of a fresh manager were exported
C20_WitnessNoErrors ==
    /\ pc = "manager" /\ returned.op = "export_errors_to_csv"
    /\ results = << >> /\ errors = << >>
    /\ Len(returned.written) = 1

\* two rows and an error record were accumulated and the rows exported
C20_WitnessRows ==
    /\ pc = "manager" /\ returned.op = "export_to_csv"
    /\ Len(results) = 2 /\ Len(errors) = 1
    /\ Len(returned.written) = 3
    /\ returned.written[2] # returned.written[3]


-----------------------------------------------------------------------------
(* The model tag *)

\* a manager was constructed for the model name in model_selection
TagMade == pc \in { "manager", "exported" } /\ tag # NoTag /\ total_files = 0 /\ hist = << >>

EndsWith(s, part) ==
    Len(s) >= Len(part) /\ SubSeq(s, Len(s) - Len(part) + 1, Len(s)) = part

Occurrences(s, part) ==
    Cardinality({ k \in 0 .. (Len(s) - Len(part)) : SubSeq(s, k + 1, k + Len(part)) = part })

\* no character of t is an upper-case letter
LowerCased(t) == \A k \in DOMAIN t : lower_char(t[k]) = t[k]

\* every run of characters outside `kept` has become one dash
RunsCollapsed(t, kept) ==
    /\ \A k \in DOMAIN t : t[k] \in kept \cup { "-" }
    /\ \A k \in 1 .. (Len(t) - 1) : ~ (t[k] = "-" /\ t[k + 1] = "-")

NoOuterDash(t) == t # << >> => t[1] # "-" /\ t[Len(t)] # "-"

\* the text after a provider's canonical name is dropped
SuffixCollapsed(name, t) ==
    /\ Contains(lower(name), ClaudeOpus4) \/ Contains(lower(name), O3) =>
          EndsWith(t, ClaudeOpus4) \/ EndsWith(t, O3)
    /\ Contains(t, O3) => EndsWith(t, O3) /\ Occurrences(t, O3) = 1
    /\ Contains(t, ClaudeOpus4) => EndsWith(t, ClaudeOpus4) /\ Occurrences(t, ClaudeOpus4) = 1

\* the tag is in the path of the export
TagInPath ==
    pc = "exported" =>
        /\ returned.path[6] = tag.model_name
        /\ returned.path[8] = RunTimestamp

\* C21 as stated: for every model name the tag in the export file names is
\* lower-case, has every run of non-alphanumeric characters collapsed to a
\* single dash, has no leading or trailing dash, has the provider-version
\* suffixes collapsed to the canonical short form (claude-opus-4, o3), and
\* is never empty (it falls back to 'unknown').
C21_TagAsClaimed ==
    TagMade =>
        /\ LowerCased(tag.model_name)
        /\ RunsCollapsed(tag.model_name, Alnum)
        /\ NoOuterDash(tag.model_name)
        /\ SuffixCollapsed(model_selection, tag.model_name)
        /\ tag.model_name # << >>
        /\ TagInPath

\* C21, amended: the tag is lower-case, has every run of characters other
\* than a-z, 0-9, underscore and dash replaced by a single dash (underscores
\* are kept as they are), has no leading or trailing dash, and is never
\* empty: it is 'unknown' when the name has no letter, digit or underscore.
\* If the lower-cased name, as given and without a line break, contains
\* 'claude-opus-4' or 'o3', the tag ends with one of the two canonical names
\* and holds nothing after it.
C21_Tag ==
    TagMade =>
        /\ LowerCased(tag.model_name)
        /\ RunsCollapsed(tag.model_name, Alnum \cup { "_" })
        /\ NoOuterDash(tag.model_name)
        /\ tag.model_name # << >>
        /\ (\A k \in DOMAIN model_selection :
               lower_char(model_selection[k]) \notin Alnum \cup { "_" })
             => tag.model_name = Unknown
        /\ ~ Contains(model_selection, << "\n" >>)
             /\ (Contains(lower(model_selection), ClaudeOpus4)
                   \/ Contains(lower(model_selection), O3))
             => \/ EndsWith(tag.model_name, O3) /\ Occurrences(tag.model_name, O3) = 1
                \/ /\ EndsWith(tag.model_name, ClaudeOpus4)
                   /\ Occurrences(tag.model_name, ClaudeOpus4) = 1
                   /\ ~ Contains(tag.model_name, O3)
        /\ TagInPath

\* the tag of a dated Claude model name written in upper case
C21_Witness ==
    /\ TagMade
    /\ pc = "exported"
    /\ model_selection =
          << "C", "L", "A", "U", "D", "E", "-", "O", "P", "U", "S", "-", "4", ".", "1" >>
    /\ tag.model_name = ClaudeOpus4

\* the tag of a name of separators only
C21_WitnessUnknown ==
    /\ TagMade
    /\ model_selection = << " ", ".", "-" >>
    /\ tag.model_name = Unknown


-----------------------------------------------------------------------------
(* One document at a time, in submission order *)

\* the source_file column of a list of records
SourceFilesOf(records) == [ k \in DOMAIN records |-> records[k].source_file ]

\* files is a subsequence of the submission order 1, 2, ..., total_files
InSubmissionOrder(files) ==
    /\ \A k \in DOMAIN files : files[k] \in 1 .. total_files
    /\ \A j, k \in DOMAIN files : j < k => files[j] < files[k]

\* a pipeline stage ran in this step
StageRan == pc \in InTry /\ trace' # trace

\* C22: documents are processed strictly one at a time in submission order:
\* a stage of a document runs only when every earlier document has an
\* outcome recorded, the first stage run for a document is the readability
\* check and follows the stages of all earlier documents, no stage of an
\* earlier document runs afterwards, and the source_file sequences of results and of
\* errors are each subsequences of the submission order.
C22_OneAtATime ==
    /\ [] ( InSubmissionOrder(SourceFilesOf(results))
            /\ InSubmissionOrder(SourceFilesOf(errors)) )
    /\ [][ StageRan =>
             /\ Len(trace') = Len(trace) + 1
             /\ Last(trace').doc = i
             /\ \A d \in 1 .. (i - 1) : Records(d) >= 1
             /\ IF trace = << >> \/ Last(trace).doc # i
                THEN /\ Last(trace').step = "is_pdf_readable"
                     /\ trace # << >> => Last(trace).doc < i
                ELSE Last(trace').step # "is_pdf_readable" ]_vars

\* a run of two documents: the first refused, the second stored
C22_Witness ==
    /\ pc = "completed"
    /\ total_files = 2
    /\ SourceFilesOf(errors) = << 1 >>
    /\ SourceFilesOf(results) = << 2 >>
    /\ trace[1].doc = 1 /\ Last(trace).doc = 2

\* a run of two documents, both stored
C22_WitnessResults ==
    /\ pc = "completed"
    /\ SourceFilesOf(results) = << 1, 2 >>


-----------------------------------------------------------------------------
(* The sequence of extract_text_from_pdf *)

\* the characters only the native texts of the checks hold
NativeOnlyChars == { "x", "y" }

HoldsNativeChars(text) == \E k \in DOMAIN text : text[k].c \in NativeOnlyChars

\* the page's OCR text is not blank
OcrUsable == text_strip(eIn.ocr) # << >>

\* C23: extract_text_from_pdf goes native attempt, then at most one OCR
\* attempt, then done: the native extraction is attempted once and first;
\* OCR is attempted at most once and only when the native text was judged
\* insufficient; with a sufficient native text OCR is not run and the result
\* is the sanitized native text; when OCR runs the result is derived from
\* the OCR text only and the insufficient native text is discarded.
C23_ExtractSequence ==
    pc # "extract" =>
        /\ eOut.steps \in { << "native" >>, << "native", "ocr" >> }
        /\ eOut.steps = << "native", "ocr" >> <=> ~ (non_space(eIn.native) >= 50)
        /\ eOut.steps = << "native" >> =>
              /\ eOut.success
              /\ pc = "extracted" => eOut.text = cOut
        /\ eOut.steps = << "native", "ocr" >> =>
              /\ ~ HoldsNativeChars(eOut.text)
              /\ eOut.success <=> OcrUsable
              /\ eOut.text = (IF OcrUsable THEN _clean_text(eIn.ocr) ELSE << >>)

\* a page with 49 characters of native text and a scan: the text returned
\* is the scan's
C23_Witness ==
    /\ pc = "extracted"
    /\ eOut.steps = << "native", "ocr" >>
    /\ non_space(eIn.native) = 49
    /\ HoldsNativeChars(cOut)
    /\ OcrUsable
    /\ eOut.success /\ eOut.text # << >>

\* a page with a sufficient native text and a scan: the scan is not read
C23_WitnessNative ==
    /\ pc = "extracted"
    /\ eOut.steps = << "native" >>
    /\ OcrUsable
    /\ eOut.text = cOut /\ HoldsNativeChars(cOut)


-----------------------------------------------------------------------------
(* What the stages return *)

\* an error description that is there and not empty
Described(error) == error # None /\ \E k \in DOMAIN error : error[k] # ""

\* the empty payload of a stage
EmptyPayload(s) ==
    IF s.step = "analyze_paper" THEN s.payload = EmptyDict ELSE s.payload = << >>

\* C24: every stage returns a consistent (payload, success, error) value: for
\* extract_text_from_pdf and analyze_paper, success means the error is
\* absent and failure means the error is a non-empty description and the
\* payload is empty (the empty text, the empty verdict); for is_pdf_readable
\* and validate_result, a true flag means no error and a false flag a
\* non-empty reason.  A stage that ran has returned such a value.
C24_StageResults ==
    \A k \in DOMAIN trace :
        LET s == trace[k] IN
        s.step \in InTry \ { "add_result" } =>
            /\ s.ok \in BOOLEAN
            /\ s.ok => s.error = None
            /\ ~ s.ok => Described(s.error)
            /\ ~ s.ok /\ s.step \in { "extract_text_from_pdf", "analyze_paper" } =>
                  EmptyPayload(s)

\* a run in which the second stage failed for the first document and the
\* third for the second one
C24_Witness ==
    /\ total_files = 2
    /\ \E j, k \in DOMAIN trace :
          /\ trace[j].doc = 1 /\ trace[j].step = "extract_text_from_pdf" /\ ~ trace[j].ok
          /\ trace[k].doc = 2 /\ trace[k].step = "analyze_paper" /\ ~ trace[k].ok
          /\ trace[j].payload = << >> /\ trace[k].payload = EmptyDict
    /\ \E k \in DOMAIN trace : trace[k].step = "is_pdf_readable" /\ trace[k].ok


-----------------------------------------------------------------------------
(* The text handed to the analysis *)

\* C25: whenever extract_text_from_pdf returns success the sanitized text it
\* returns is not empty, on the OCR path too, so the driver never passes an
\* empty text to analyze_paper.
C25_TextNotEmpty ==
    /\ \A k \in DOMAIN trace :
          trace[k].step = "extract_text_from_pdf" /\ trace[k].ok => trace[k].payload # << >>
    /\ pc = "analyze_paper" => extracted_text # << >>


-----------------------------------------------------------------------------
(* The dispatch on the model selector *)

\* the providers an analysis contacted
Contacted(a) ==
    { IF a.calls[k] = OpenAICreate THEN "openai" ELSE "anthropic" : k \in DOMAIN a.calls }

\* the selector holds the word in any case
Names(model, word) ==
    \E k \in 0 .. (Len(model) - Len(word)) :
        \A j \in 1 .. Len(word) : lower_char(model[k + j]) = word[j]

Unsupported(a, model) ==
    /\ ~ a.success
    /\ a.result = EmptyDict
    /\ a.error = << "Unsupported model: " >> \o model
    /\ a.calls = << >>

\* the analysis was handed to the provider and to no other: with a client
\* the provider's first call was made, without one the provider refused
RoutedTo(a, provider, clients) ==
    /\ Contacted(a) \subseteq { provider }
    /\ IF clients[provider]
       THEN a.calls # << >>
            /\ a.calls[1] = (IF provider = "openai" THEN OpenAICreate ELSE AnthropicStream)
       ELSE NotInitialized(a, provider)

\* by the selector alone: o3 first, then claude, else unsupported
DispatchedBySelector(a) ==
    /\ Names(aIn.model, << "o", "3" >>) => RoutedTo(a, "openai", aIn.clients)
    /\ Names(aIn.model, << "c", "l", "a", "u", "d", "e" >>)
         /\ ~ Names(aIn.model, << "o", "3" >>) => RoutedTo(a, "anthropic", aIn.clients)
    /\ ~ Names(aIn.model, << "c", "l", "a", "u", "d", "e" >>)
         /\ ~ Names(aIn.model, << "o", "3" >>) => Unsupported(a, aIn.model)
    /\ Cardinality(Contacted(a)) <= 1

\* C26 as stated: the dispatch is a total function of the model selector,
\* matched as a substring in any case: a selector holding 'o3' routes to the
\* non-streaming provider only, also when it holds 'claude'; one holding
\* 'claude' and not 'o3' routes to the streaming provider only; one holding
\* neither returns the 'Unsupported model' failure without a backend call;
\* an analyze call never contacts both providers.
C26_SelectorAlone ==
    pc = "analyzed" => \A L \in TextLengths : DispatchedBySelector(aOut[L])

\* C26, amended: as stated for a text within the token cutoff; for a text
\* over the cutoff analyze_paper returns the 'Document too large' failure
\* without a backend call, whatever the selector is.
C26_SelectorWithinCutoff ==
    pc = "analyzed" =>
        \A L \in TextLengths :
            IF L \div 4 <= 180000
            THEN DispatchedBySelector(aOut[L])
            ELSE /\ ~ aOut[L].success
                 /\ aOut[L].result = EmptyDict
                 /\ aOut[L].error[1] = "Document too large ("
                 /\ aOut[L].calls = << >>

\* a selector holding both names, with both clients: the non-streaming
\* provider was called and the other one was not
C26_Witness ==
    /\ pc = "analyzed"
    /\ aIn.model = << "c", "l", "a", "u", "d", "e", "-", "o", "3" >>
    /\ aIn.clients.openai /\ aIn.clients.anthropic
    /\ aOut[200000].calls = << OpenAICreate >>
    /\ Contacted(aOut[200000]) = { "openai" }

\* an unsupported selector with a text within the cutoff
C26_WitnessUnsupported ==
    /\ pc = "analyzed"
    /\ aIn.model = << "g", "p", "t", "-", "4" >>
    /\ Unsupported(aOut[720003], aIn.model)

=============================================================================
